---------------------------- MODULE Spec2Model ----------------------------
(***************************************************************************)
(* Model of the call/usage-resolution pipeline of create_dataset/find_usages *)
(* (__main__.py and modified_handle_local_syntax_directed_typing_constraints *)
(* .py): the import loop, the bridge maps, the module loop with its dummy   *)
(* seeding, and the constraint callback applied to every node of a module   *)
(* in evaluation order, printing one call-site record per resolved callee.  *)
(***************************************************************************)
EXTENDS Integers, Sequences, FiniteSets, TLC

VARIABLES
    root,                          \* the files under the module search root (input)
    module_name_to_file_path_dict, \* result of do_static_import_analysis (insertion order)
    i,                             \* position of the import loop in that table
    module_name_to_module_node,    \* names of the modules whose AST was stored, in order
    module_name_to_module,         \* names of the modules whose live module was stored
    log,                           \* logging.exception / logging.error calls, in order
    top_level_class_definitions_to_runtime_classes,
    pc,                            \* "import", "bridge", "seed", "visit", "done", "aborted"
    raised,                        \* the exception that ended the run, <<>> when none
    unwrapped_runtime_functions_to_named_function_definitions,
    named_function_definitions_to_unwrapped_runtime_functions,
    j,                             \* position of the module loop
    k,                             \* next node of the current module in evaluation order
    names_to_dummy_definition_nodes,
    node_to_definition_node_mapping,
    node_runtime_terms,            \* the term store: node -> set of RuntimeTerms
    stdout,                        \* the printed call-site records, in order
    analysed,                      \* modules whose pass ran to its end
    rerun                          \* a second run of the same tree: its store and output

vars == <<root, module_name_to_file_path_dict, i, module_name_to_module_node,
          module_name_to_module, log, pc, raised,
          top_level_class_definitions_to_runtime_classes,
          unwrapped_runtime_functions_to_named_function_definitions,
          named_function_definitions_to_unwrapped_runtime_functions,
          j, k, names_to_dummy_definition_nodes, node_to_definition_node_mapping,
          node_runtime_terms, stdout, analysed, rerun>>

-----------------------------------------------------------------------------
(* Bounds *)

MaxFiles == 2
MaxSources == 2

-----------------------------------------------------------------------------
(* Optional values: None is the empty tuple, a value v is <<v>>. *)

None == <<>>
Some(v) == <<v>>

Range(s) == {s[x] : x \in DOMAIN s}

RECURSIVE SeqsUpTo(_, _)
SeqsUpTo(S, n) ==
    IF n = 0 THEN {<<>>}
    ELSE LET shorter == SeqsUpTo(S, n - 1)
         IN  shorter \cup {Append(s, x) : s \in {t \in shorter : Len(t) = n - 1}, x \in S}

\* All orders in which the elements of a finite set can be iterated.
Orders(S) ==
    {s \in [1 .. Cardinality(S) -> S] : \A x \in S : \E p \in DOMAIN s : s[p] = x}


-----------------------------------------------------------------------------
(* Exceptions: the classes the import loop's except clause names, and the   *)
(* builtin subclass relation isinstance() follows.                          *)

IsSubclass(exc, cls) ==
    \/ exc = cls
    \/ exc = "ModuleNotFoundError" /\ cls = "ImportError"
    \/ exc = "UnicodeDecodeError" /\ cls = "UnicodeError"
    \/ exc = "SyntaxError" /\ cls = "Exception"
    \/ exc = "ValueError" /\ cls = "Exception"
    \/ exc = "OSError" /\ cls = "Exception"

ImportExceptions == {"ModuleNotFoundError", "UnicodeDecodeError", "SyntaxError", "ValueError"}

-----------------------------------------------------------------------------
(* Files.  A path is its sequence of pieces, so that str.endswith on the    *)
(* path is a test on the last pieces.  `parses` tells whether ast.parse     *)
(* accepts the file, `top` is the exception importlib.import_module raises  *)
(* for it (None when the import succeeds), `srcs` describes its content.    *)

File(name, path, parses, top, srcs) ==
    [name |-> name, path |-> path, parses |-> parses, top |-> top, srcs |-> srcs]

RECURSIVE Join(_)
Join(pieces) == IF pieces = <<>> THEN "" ELSE Head(pieces) \o Join(Tail(pieces))

\* str.endswith(suffix) for a suffix that is a whole number of trailing pieces.
EndsWith(path, suffix) ==
    \E n \in 1 .. Len(path) : Join(SubSeq(path, n, Len(path))) = suffix

ModuleNames == <<"m1", "m2", "m3", "m4">>

\* What the callee name of the analysed call is assigned from, one entry per
\* assignment `f = <source>` of the module.
PlainSources == {"foo", "bad", "A"}
RichSources ==
    <<"foo", "bad", "A", "B", "S", "K", "lambda", "len", "os", "undefined", "K()", "A()", "B()">>

\* Contents of more than PairSources assignments draw from the first CoreSources
\* sources; roots of more than LongRoot files hold the short program in every file.
PairSources == 2
CoreSources == 6
LongRoot == 2

\* The contents of up to MaxSources assignments, each listed once whatever the
\* order of its assignments.
RichContents ==
    {[p \in DOMAIN c |-> RichSources[c[p]]] :
        c \in {d \in SeqsUpTo(DOMAIN RichSources, MaxSources) :
                  /\ Len(d) >= 1 /\ \A p \in 1 .. Len(d) - 1 : d[p] <= d[p + 1]
                  /\ Len(d) > PairSources => \A p \in DOMAIN d : d[p] <= CoreSources}}

FileShapes(name, contents) ==
    {File(name, <<"setup.py">>, TRUE, None, <<>>),
     File(name, <<"pkg/", "__main__.py">>, TRUE, None, <<>>),
     File(name, <<"test_", "setup.py">>, TRUE, None, <<>>),
     File(name, <<name, ".py">>, FALSE, Some("SyntaxError"), <<>>)}
    \cup {File(name, <<name, ".py">>, TRUE, Some(e), <<>>) : e \in ImportExceptions}
    \cup {File(name, <<name, ".py">>, TRUE, None, c) : c \in contents}

\* Roots of several files with plain contents.
PipelineRoots ==
    {r \in SeqsUpTo(UNION {FileShapes(ModuleNames[p], {<<s>> : s \in PlainSources})
                           : p \in 1 .. MaxFiles}, MaxFiles) :
        /\ Len(r) >= 1
        /\ \A p \in DOMAIN r : r[p].name = ModuleNames[p]
        \* a parsable file whose import raises SyntaxError imports an unparsable sibling
        /\ \A p \in DOMAIN r :
              (r[p].parses /\ r[p].top = Some("SyntaxError"))
                  => \E q \in DOMAIN r : ~r[q].parses}

\* Roots of one importable file whose callee name is assigned from any sources.
RichRoots ==
    {<<File(ModuleNames[1], <<ModuleNames[1], ".py">>, TRUE, None, c)>> : c \in RichContents}

\* do_static_import_analysis: one entry per source file that parses; a file that
\* fails to parse is skipped with a logged error and contributes no entry.
do_static_import_analysis(files) ==
    SelectSeq(files, LAMBDA f : f.parses)

StaticAnalysisLog(files) ==
    [p \in 1 .. Len(SelectSeq(files, LAMBDA f : ~f.parses)) |->
        [level |-> "error", what |-> "parse",
         name |-> SelectSeq(files, LAMBDA f : ~f.parses)[p].name]]

-----------------------------------------------------------------------------
(* The import loop, __main__.py lines 65-76.                                *)

\* Line 66: the special-file filter.
IsSpecialFile(file_path) ==
    EndsWith(file_path, "setup.py") \/ EndsWith(file_path, "__main__.py")

\* Lines 69-72: open/read/ast.parse, then importlib.import_module; the first
\* exception raised, or None.
ImportAttempt(f) ==
    IF ~f.parses THEN Some("SyntaxError") ELSE f.top

\* A handler for ImportError alone.
OnlyImportErrorIsCaught(exc) == IsSubclass(exc, "ImportError")

\* Line 75: except (ImportError, UnicodeError).
ImportErrorIsCaught(exc) ==
    IsSubclass(exc, "ImportError") \/ IsSubclass(exc, "UnicodeError")

\* Lines 73-74 after a successful import: a table gains the module's entry.
StoreImported(table, name, value) == Append(table, [name |-> name, value |-> value])

-----------------------------------------------------------------------------
(* Live runtime objects, as reflection shows them, and RuntimeTerms.        *)

Module(name) == [tag |-> "Module", name |-> name]
RuntimeClass(module, name) == [tag |-> "RuntimeClass", module |-> module, name |-> name]
UnwrappedRuntimeFunction(module, owner, name) ==
    [tag |-> "UnwrappedRuntimeFunction", module |-> module, owner |-> owner, name |-> name]
Object(type) == [tag |-> "Object", type |-> type]
Wrapper(wrapped) == [tag |-> "Wrapper", wrapped |-> wrapped]

Instance(class_) == [tag |-> "Instance", class_ |-> class_]
FunctionDefinition(node) == [tag |-> "FunctionDefinition", node |-> node]
UnboundMethod(class_, function) ==
    [tag |-> "UnboundMethod", class_ |-> class_, function |-> function]
BoundMethod(instance, function) ==
    [tag |-> "BoundMethod", instance |-> instance, function |-> function]

\* type_definitions.Function: a source-defined or a native function.
IsFunction(t) == t.tag \in {"FunctionDefinition", "UnwrappedRuntimeFunction"}

ObjectInit == UnwrappedRuntimeFunction("builtins", "object", "__init__")

\* unwrap: strips the decorator layers of a runtime object.
RECURSIVE unwrap(_)
unwrap(v) == IF v.tag = "Wrapper" THEN unwrap(v.wrapped) ELSE v

runtime_term_of_unwrapped_runtime_function(f) == f

\* get_unwrapped_constructor: the class's constructor; S inherits A's.
get_unwrapped_constructor(c) ==
    IF c.name \in {"A", "S"} /\ c.module \in Range(ModuleNames)
    THEN UnwrappedRuntimeFunction(c.module, "A", "__init__")
    ELSE ObjectInit

\* get_comprehensive_dict_for_runtime_class: attribute name -> provider over the
\* whole method-resolution order, native bases included.
get_comprehensive_dict_for_runtime_class(c) ==
    IF c.module \in Range(ModuleNames) /\ c.name \in {"A", "S"}
    THEN [a \in {"__init__", "m"} |-> UnwrappedRuntimeFunction(c.module, "A", a)]
    ELSE IF c.module \in Range(ModuleNames) /\ c.name = "K"
    THEN [a \in {"__init__", "__call__"} |->
            IF a = "__call__" THEN Wrapper(UnwrappedRuntimeFunction(c.module, "K", a))
            ELSE ObjectInit]
    ELSE IF c.module \in Range(ModuleNames) /\ c.name = "B"
    THEN [a \in {"__init__", "__call__"} |->
            IF a = "__call__" THEN UnwrappedRuntimeFunction("functools", "partial", a)
            ELSE ObjectInit]
    ELSE IF c.module \in Range(ModuleNames) /\ c.name = "Q"
    THEN [a \in {"__init__", "meth"} |->
            IF a = "meth" THEN UnwrappedRuntimeFunction(c.module, "Q", a) ELSE ObjectInit]
    ELSE [a \in {"__init__"} |-> ObjectInit]

\* inspect.getsourcelines: None when it raises, else <<[start, n]>>.
getsourcelines(f) ==
    IF f.module \in Range(ModuleNames)
    THEN CASE f.owner = "" /\ f.name = "foo" -> Some([start |-> 1, n |-> 2])
           [] f.owner = "A" /\ f.name = "__init__" -> Some([start |-> 5, n |-> 2])
           [] f.owner = "A" /\ f.name = "m" -> Some([start |-> 7, n |-> 2])
           [] f.owner = "K" /\ f.name = "__call__" -> Some([start |-> 11, n |-> 3])
           [] f.owner = "" /\ f.name = "late" -> Some([start |-> 44, n |-> 2])
           [] OTHER -> None
    ELSE None

\* inspect.signature, as str() prints it.
signature(f) ==
    CASE f.owner = "" -> "(x)"
      [] f.name = "__call__" -> "(self, x)"
      [] OTHER -> "(self)"

-----------------------------------------------------------------------------
(* Nodes.  An AST node is named by its module and its position in the       *)
(* module's evaluation order; a dummy definition node by its module, the    *)
(* seeding loop that made it and its name.                                  *)

AstNode(m, n) == [m |-> m, k |-> n, d |-> "", id |-> ""]
DummyNode(m, d, id) == [m |-> m, k |-> 0, d |-> d, id |-> id]

BlankNode ==
    [kind |-> "", id |-> "", ctx |-> "", ref |-> 0, targets |-> <<>>, value |-> "",
     elts |-> <<>>, lineno |-> 0, end_lineno |-> 0, scope |-> 0, cls |-> 0, rt |-> None]

AstDef(kind, id, lineno, end_lineno, scope, rt) ==
    [BlankNode EXCEPT !.kind = kind, !.id = id, !.lineno = lineno,
                      !.end_lineno = end_lineno, !.scope = scope, !.rt = rt]
AstName(id, ctx, lineno, scope) ==
    [BlankNode EXCEPT !.kind = "Name", !.id = id, !.ctx = ctx, !.lineno = lineno,
                      !.end_lineno = lineno, !.scope = scope]
AstCall(func, lineno, scope) ==
    [BlankNode EXCEPT !.kind = "Call", !.ref = func, !.lineno = lineno,
                      !.end_lineno = lineno, !.scope = scope]
AstAssign(targets, value, lineno, scope) ==
    [BlankNode EXCEPT !.kind = "Assign", !.targets = targets, !.ref = value,
                      !.lineno = lineno, !.end_lineno = lineno, !.scope = scope]
AstConstant(type, lineno, scope) ==
    [BlankNode EXCEPT !.kind = "Constant", !.value = type, !.lineno = lineno,
                      !.end_lineno = lineno, !.scope = scope]
AstAttribute(value, attr, lineno, scope) ==
    [BlankNode EXCEPT !.kind = "Attribute", !.ref = value, !.id = attr, !.ctx = "Load",
                      !.lineno = lineno, !.end_lineno = lineno, !.scope = scope]
AstAnnAssign(target, value, lineno, scope) ==
    [BlankNode EXCEPT !.kind = "AnnAssign", !.targets = <<target>>, !.ref = value,
                      !.lineno = lineno, !.end_lineno = lineno, !.scope = scope]
AstOther(kind, lineno, scope) ==
    [BlankNode EXCEPT !.kind = kind, !.lineno = lineno, !.end_lineno = lineno,
                      !.scope = scope]

InClass(node, cls) == [node EXCEPT !.cls = cls]
InStore(node) == [node EXCEPT !.ctx = "Store"]

-----------------------------------------------------------------------------
(* The content of a module, as its nodes in evaluation order:               *)
(*    1  def foo(x): ...          9  class B(functools.partial): pass       *)
(*    3  def bad(x): ...         10  class K:  def __call__(self, x): ...   *)
(*    4  class A:                14  class S(A): pass                       *)
(*    5      def __init__(self)  15  import os ...                          *)
(*    7      def m(self)         16  f = <source>   (one line per source)   *)
(*   then, in a file with one source, the literals, the scopes and the      *)
(*   extra statements below, then  def baz(): ...  and                      *)
(*   def bar():  obj = alt = f(1).                                          *)

Prelude(m) ==
    << AstDef("FunctionDef", "foo", 1, 2, 0, Some(UnwrappedRuntimeFunction(m, "", "foo"))),
       AstDef("FunctionDef", "bad", 3, 3, 0, Some(UnwrappedRuntimeFunction(m, "", "bad"))),
       AstDef("ClassDef", "A", 4, 8, 0, Some(RuntimeClass(m, "A"))),
       InClass(AstDef("FunctionDef", "__init__", 5, 6, 0,
                      Some(UnwrappedRuntimeFunction(m, "A", "__init__"))), 3),
       InClass(AstDef("FunctionDef", "m", 7, 8, 0,
                      Some(UnwrappedRuntimeFunction(m, "A", "m"))), 3),
       AstDef("ClassDef", "B", 9, 9, 0, Some(RuntimeClass(m, "B"))),
       AstDef("ClassDef", "K", 10, 13, 0, Some(RuntimeClass(m, "K"))),
       InClass(AstDef("FunctionDef", "__call__", 11, 13, 0,
                      Some(UnwrappedRuntimeFunction(m, "K", "__call__"))), 7),
       AstDef("ClassDef", "S", 14, 14, 0, Some(RuntimeClass(m, "S"))),
       AstOther("Import", 15, 0) >>

\* The expression a source stands for, placed after `base` nodes.
SourceNodes(s, base, line) ==
    IF s = "lambda" THEN <<AstDef("Lambda", "", line, line, 0, None)>>
    ELSE IF s = "K()" THEN <<AstName("K", "Load", line, 0), AstCall(base + 1, line, 0)>>
    ELSE IF s = "A()" THEN <<AstName("A", "Load", line, 0), AstCall(base + 1, line, 0)>>
    ELSE IF s = "B()" THEN <<AstName("B", "Load", line, 0), AstCall(base + 1, line, 0)>>
    ELSE <<AstName(s, "Load", line, 0)>>

\* f = <source>
AssignmentNodes(s, base, line) ==
    LET e == SourceNodes(s, base, line)
        n == base + Len(e)
    IN  e \o <<AstName("f", "Store", line, 0), AstAssign(<<n + 1>>, n, line, 0)>>

RECURSIVE Assignments(_, _, _)
Assignments(srcs, base, line) ==
    IF srcs = <<>> THEN <<>>
    ELSE LET a == AssignmentNodes(Head(srcs), base, line)
         IN  a \o Assignments(Tail(srcs), base + Len(a), line + 1)

\* def bar():  obj = alt = f(1)
CallerNodes(m, base, line) ==
    << AstDef("FunctionDef", "bar", line, line + 1, 0,
              Some(UnwrappedRuntimeFunction(m, "", "bar"))),
       AstName("f", "Load", line + 1, base + 1),
       AstConstant("int", line + 1, base + 1),
       AstCall(base + 2, line + 1, base + 1),
       AstName("obj", "Store", line + 1, base + 1),
       AstName("alt", "Store", line + 1, base + 1),
       AstAssign(<<base + 5, base + 6>>, base + 4, line + 1, base + 1) >>

\* Literals, displays and comprehensions at module level, 9 lines:
\*    [1.5]   {"x": None}   {True}   f"{f}"   [a, b] = (1, 2)
\*    [c for c in ()]   {c for c in ()}   {c: c for c in ()}   (c for c in ())
LiteralNodes(base, line) ==
    << AstConstant("float", line, 0),
       AstOther("List", line, 0),
       AstConstant("str", line + 1, 0),
       AstConstant("NoneType", line + 1, 0),
       AstOther("Dict", line + 1, 0),
       AstConstant("bool", line + 2, 0),
       AstOther("Set", line + 2, 0),
       AstName("f", "Load", line + 3, 0),
       AstOther("FormattedValue", line + 3, 0),
       AstOther("JoinedStr", line + 3, 0),
       AstConstant("int", line + 4, 0),
       AstConstant("int", line + 4, 0),
       AstOther("Tuple", line + 4, 0),
       AstName("a", "Store", line + 4, 0),
       AstName("b", "Store", line + 4, 0),
       [InStore(AstOther("List", line + 4, 0)) EXCEPT !.elts = <<base + 14, base + 15>>],
       AstAssign(<<base + 16>>, base + 13, line + 4, 0),
       AstOther("Tuple", line + 5, 0),
       AstName("c", "Store", line + 5, base + 21),
       AstName("c", "Load", line + 5, base + 21),
       AstOther("ListComp", line + 5, 0),
       AstOther("Tuple", line + 6, 0),
       AstName("c", "Store", line + 6, base + 25),
       AstName("c", "Load", line + 6, base + 25),
       AstOther("SetComp", line + 6, 0),
       AstOther("Tuple", line + 7, 0),
       AstName("c", "Store", line + 7, base + 29),
       AstName("c", "Load", line + 7, base + 29),
       AstOther("DictComp", line + 7, 0),
       AstOther("Tuple", line + 8, 0),
       AstName("c", "Store", line + 8, base + 33),
       AstName("c", "Load", line + 8, base + 33),
       AstOther("GeneratorExp", line + 8, 0) >>

\* Scopes, 14 lines:
\*    v = B
\*    class Q:
\*        v = A
\*        int = A
\*        def meth(self):
\*            w = v; c = int
\*    def outer():
\*        v = K
\*        def inner():
\*            y = v
\*    def early():
\*        t = foo
\*        foo = A
\*        e = foo
ScopeNodes(m, base, line) ==
    << AstName("B", "Load", line, 0),
       AstName("v", "Store", line, 0),
       AstAssign(<<base + 2>>, base + 1, line, 0),
       AstDef("ClassDef", "Q", line + 1, line + 5, 0, Some(RuntimeClass(m, "Q"))),
       InClass(AstName("A", "Load", line + 2, 0), base + 4),
       InClass(AstName("v", "Store", line + 2, 0), base + 4),
       InClass(AstAssign(<<base + 6>>, base + 5, line + 2, 0), base + 4),
       InClass(AstName("A", "Load", line + 3, 0), base + 4),
       InClass(AstName("int", "Store", line + 3, 0), base + 4),
       InClass(AstAssign(<<base + 9>>, base + 8, line + 3, 0), base + 4),
       InClass(AstDef("FunctionDef", "meth", line + 4, line + 5, 0,
                      Some(UnwrappedRuntimeFunction(m, "Q", "meth"))), base + 4),
       AstName("v", "Load", line + 5, base + 11),
       AstName("w", "Store", line + 5, base + 11),
       AstAssign(<<base + 13>>, base + 12, line + 5, base + 11),
       AstName("int", "Load", line + 5, base + 11),
       AstName("c", "Store", line + 5, base + 11),
       AstAssign(<<base + 16>>, base + 15, line + 5, base + 11),
       AstDef("FunctionDef", "outer", line + 6, line + 9, 0,
              Some(UnwrappedRuntimeFunction(m, "", "outer"))),
       AstName("K", "Load", line + 7, base + 18),
       AstName("v", "Store", line + 7, base + 18),
       AstAssign(<<base + 20>>, base + 19, line + 7, base + 18),
       AstDef("FunctionDef", "inner", line + 8, line + 9, base + 18, None),
       AstName("v", "Load", line + 9, base + 22),
       AstName("y", "Store", line + 9, base + 22),
       AstAssign(<<base + 24>>, base + 23, line + 9, base + 22),
       AstDef("FunctionDef", "early", line + 10, line + 13, 0,
              Some(UnwrappedRuntimeFunction(m, "", "early"))),
       AstName("foo", "Load", line + 11, base + 26),
       AstName("t", "Store", line + 11, base + 26),
       AstAssign(<<base + 28>>, base + 27, line + 11, base + 26),
       AstName("A", "Load", line + 12, base + 26),
       AstName("foo", "Store", line + 12, base + 26),
       AstAssign(<<base + 31>>, base + 30, line + 12, base + 26),
       AstName("foo", "Load", line + 13, base + 26),
       AstName("e", "Store", line + 13, base + 26),
       AstAssign(<<base + 34>>, base + 33, line + 13, base + 26) >>

\* Imports, forward calls, nested callers and statements without rule, 18 lines:
\*    p = pi
\*    cw = getcwd
\*    def first():
\*        late(1)
\*    def late(x):
\*        return x
\*    def second():
\*        late(2)
\*    def lam():
\*        k = lambda: foo(2)
\*        [foo(3) for c in ()]
\*    d = foo
\*    s = d = K
\*    n: int
\*    d += 1
\*    foo(4)
\*    for w in cw: pass
\*    cw[0] + 1
ExtraNodes(m, base, line) ==
    << AstName("pi", "Load", line, 0),
       AstName("p", "Store", line, 0),
       AstAssign(<<base + 2>>, base + 1, line, 0),
       AstName("getcwd", "Load", line + 1, 0),
       AstName("cw", "Store", line + 1, 0),
       AstAssign(<<base + 5>>, base + 4, line + 1, 0),
       AstDef("FunctionDef", "first", line + 2, line + 3, 0,
              Some(UnwrappedRuntimeFunction(m, "", "first"))),
       AstName("late", "Load", line + 3, base + 7),
       AstConstant("int", line + 3, base + 7),
       AstCall(base + 8, line + 3, base + 7),
       AstDef("FunctionDef", "late", line + 4, line + 5, 0,
              Some(UnwrappedRuntimeFunction(m, "", "late"))),
       AstName("x", "Load", line + 5, base + 11),
       AstOther("Return", line + 5, base + 11),
       AstDef("FunctionDef", "second", line + 6, line + 7, 0,
              Some(UnwrappedRuntimeFunction(m, "", "second"))),
       AstName("late", "Load", line + 7, base + 14),
       AstConstant("int", line + 7, base + 14),
       AstCall(base + 15, line + 7, base + 14),
       AstDef("FunctionDef", "lam", line + 8, line + 10, 0,
              Some(UnwrappedRuntimeFunction(m, "", "lam"))),
       AstDef("Lambda", "", line + 9, line + 9, base + 18, None),
       AstName("foo", "Load", line + 9, base + 19),
       AstConstant("int", line + 9, base + 19),
       AstCall(base + 20, line + 9, base + 19),
       AstName("k", "Store", line + 9, base + 18),
       AstAssign(<<base + 23>>, base + 19, line + 9, base + 18),
       AstOther("Tuple", line + 10, base + 18),
       AstName("c", "Store", line + 10, base + 30),
       AstName("foo", "Load", line + 10, base + 30),
       AstConstant("int", line + 10, base + 30),
       AstCall(base + 27, line + 10, base + 30),
       AstOther("ListComp", line + 10, base + 18),
       AstName("foo", "Load", line + 11, 0),
       AstName("d", "Store", line + 11, 0),
       AstAssign(<<base + 32>>, base + 31, line + 11, 0),
       AstName("K", "Load", line + 12, 0),
       AstName("s", "Store", line + 12, 0),
       AstName("d", "Store", line + 12, 0),
       AstAssign(<<base + 35, base + 36>>, base + 34, line + 12, 0),
       AstName("int", "Load", line + 13, 0),
       AstName("n", "Store", line + 13, 0),
       AstAnnAssign(base + 39, 0, line + 13, 0),
       AstName("d", "Store", line + 14, 0),
       AstConstant("int", line + 14, 0),
       [AstOther("AugAssign", line + 14, 0) EXCEPT !.targets = <<base + 41>>,
                                                   !.ref = base + 42],
       AstName("foo", "Load", line + 15, 0),
       AstConstant("int", line + 15, 0),
       AstCall(base + 44, line + 15, 0),
       AstName("cw", "Load", line + 16, 0),
       AstName("w", "Store", line + 16, 0),
       [AstOther("For", line + 16, 0) EXCEPT !.targets = <<base + 48>>, !.ref = base + 47],
       AstName("cw", "Load", line + 17, 0),
       AstConstant("int", line + 17, 0),
       AstOther("Subscript", line + 17, 0),
       AstConstant("int", line + 17, 0),
       AstOther("BinOp", line + 17, 0) >>

\* Attribute access and calls, 6 lines:
\*    def baz():
\*        h = f.getcwd
\*        nothing(1)
\*        u = nothing.attr
\*        z = nothing
\*        r = f.m()
DispatchNodes(m, base, line) ==
    << AstDef("FunctionDef", "baz", line, line + 5, 0,
              Some(UnwrappedRuntimeFunction(m, "", "baz"))),
       AstName("f", "Load", line + 1, base + 1),
       AstAttribute(base + 2, "getcwd", line + 1, base + 1),
       AstName("h", "Store", line + 1, base + 1),
       AstAssign(<<base + 4>>, base + 3, line + 1, base + 1),
       AstName("nothing", "Load", line + 2, base + 1),
       AstConstant("int", line + 2, base + 1),
       AstCall(base + 6, line + 2, base + 1),
       AstName("nothing", "Load", line + 3, base + 1),
       AstAttribute(base + 9, "attr", line + 3, base + 1),
       AstName("u", "Store", line + 3, base + 1),
       AstAssign(<<base + 11>>, base + 10, line + 3, base + 1),
       AstName("nothing", "Load", line + 4, base + 1),
       AstName("z", "Store", line + 4, base + 1),
       AstAssign(<<base + 14>>, base + 13, line + 4, base + 1),
       AstName("f", "Load", line + 5, base + 1),
       AstAttribute(base + 16, "m", line + 5, base + 1),
       AstCall(base + 17, line + 5, base + 1),
       AstName("r", "Store", line + 5, base + 1),
       AstAssign(<<base + 19>>, base + 18, line + 5, base + 1) >>

\* The AST of a file, in the order the statements have in it: the prelude, the
\* assignments to f, in the first module's file when it has one assignment (and
\* the root no more than LongRoot files) the literal, the scope and the extra
\* statements, then baz and the caller bar.
Program(f) ==
    IF f.srcs = <<>> THEN <<>>
    ELSE LET pre == Prelude(f.name)
             asg == Assignments(f.srcs, Len(pre), 16)
             n1 == Len(pre) + Len(asg)
             long == Len(f.srcs) = 1 /\ f.name = ModuleNames[1] /\ Len(root) <= LongRoot
             lit == IF long THEN LiteralNodes(n1, 16 + Len(f.srcs)) ELSE <<>>
             sco == IF long
                    THEN ScopeNodes(f.name, n1 + Len(lit), 25 + Len(f.srcs)) ELSE <<>>
             ext == IF long
                    THEN ExtraNodes(f.name, n1 + Len(lit) + Len(sco), 39 + Len(f.srcs))
                    ELSE <<>>
             n2 == n1 + Len(lit) + Len(sco) + Len(ext)
             line == IF long THEN 57 + Len(f.srcs) ELSE 16 + Len(f.srcs)
             dis == DispatchNodes(f.name, n2, line)
             caller == CallerNodes(f.name, n2 + Len(dis), line + 6)
         IN  pre \o asg \o lit \o sco \o ext \o dis \o caller

FileOf(files, name) == CHOOSE f \in Range(files) : f.name = name

-----------------------------------------------------------------------------
(* The bridge maps, __main__.py lines 78-102.  The table of module nodes    *)
(* holds, per imported module, its name and its AST (its nodes).            *)

TableNames(table) == [p \in DOMAIN table |-> table[p].name]
TableGet(table, name) == (CHOOSE e \in Range(table) : e.name = name).value

NodeAt(module_nodes, node) == TableGet(module_nodes, node.m)[node.k]

\* The nodes of the imported modules that are of these kinds and have a live
\* counterpart in their module.
BridgedNodes(module_nodes, kinds) ==
    UNION {{AstNode(e.name, q) : q \in {n \in DOMAIN e.value :
                  e.value[n].kind \in kinds /\ e.value[n].rt # None}}
           : e \in Range(module_nodes)}

\* get_definitions_to_runtime_terms_mappings: top-level class definitions -> live
\* classes, and unwrapped functions -> the FunctionDefinition that defines them.
ClassDefinitionsToRuntimeClasses(module_nodes) ==
    [d \in {c \in BridgedNodes(module_nodes, {"ClassDef"}) :
                NodeAt(module_nodes, c).scope = 0 /\ NodeAt(module_nodes, c).cls = 0}
        |-> NodeAt(module_nodes, d).rt[1]]

FunctionsToDefinitions(module_nodes) ==
    LET defs == BridgedNodes(module_nodes, {"FunctionDef"})
    IN  [u \in {NodeAt(module_nodes, d).rt[1] : d \in defs}
            |-> FunctionDefinition(CHOOSE d \in defs : NodeAt(module_nodes, d).rt[1] = u)]

\* Lines 98-102: the inverse dict comprehension.
InvertMapping(mapping) ==
    [d \in {mapping[u] : u \in DOMAIN mapping} |-> CHOOSE u \in DOMAIN mapping : mapping[u] = d]

-----------------------------------------------------------------------------
(* The term store, __main__.py lines 106-112.                               *)

\* A lookup that takes a node without entry for an unknown object.
get_runtime_terms_or_object(store, node_) ==
    IF node_ \in DOMAIN store THEN store[node_]
    ELSE {Instance(RuntimeClass("builtins", "object"))}

\* Lines 108-109: node_runtime_terms.get(node_, set()).
get_runtime_terms(store, node_) ==
    IF node_ \in DOMAIN store THEN store[node_] ELSE {}

\* A store that replaces a node's set instead of adding to it.
update_runtime_terms_overwriting(store, node_, runtime_terms) ==
    [n \in DOMAIN store \cup {node_} |-> IF n = node_ THEN runtime_terms ELSE store[n]]

\* Lines 111-112: setdefault(node, set()).update(runtime_terms).
update_runtime_terms(store, node_, runtime_terms) ==
    IF node_ \in DOMAIN store
    THEN [store EXCEPT ![node_] = @ \cup runtime_terms]
    ELSE [n \in DOMAIN store \cup {node_} |->
            IF n = node_ THEN runtime_terms ELSE store[n]]

-----------------------------------------------------------------------------
(* Dummy definition nodes, __main__.py lines 117-183.                       *)

\* builtins.__dict__, a sample: name pieces and value.
BuiltinsDict ==
    << <<"int", RuntimeClass("builtins", "int")>>,
       <<"len", UnwrappedRuntimeFunction("builtins", "", "len")>>,
       <<"max", UnwrappedRuntimeFunction("builtins", "", "max")>>,
       <<"min", UnwrappedRuntimeFunction("builtins", "", "min")>>,
       <<"__import__", UnwrappedRuntimeFunction("builtins", "", "__import__")>>,
       <<"copyright", Object("_Printer")>>,
       <<"None", Object("NoneType")>> >>

\* name.startswith('_'), on the names of the sample.
StartsWithUnderscore(name) == name \in {"__import__", "__build_class__", "_"}

\* (True, False, Ellipsis, None, NotImplemented): str(value) and type(value).
Singletons ==
    << <<"True", "bool">>, <<"False", "bool">>, <<"Ellipsis", "ellipsis">>,
       <<"None", "NoneType">>, <<"NotImplemented", "NotImplementedType">> >>

\* get_module_names_to_imported_names_to_runtime_objects, for one module: a
\* module, a float, a native function, a class, a function and an int named like
\* builtins, a class named like a singleton literal and a class named like a
\* class the module defines after the import.
ImportedNames(m) ==
    << <<"os", Module("os")>>,
       <<"pi", Object("float")>>,
       <<"getcwd", Wrapper(UnwrappedRuntimeFunction("posix", "", "getcwd"))>>,
       <<"OrderedDict", RuntimeClass("collections", "OrderedDict")>>,
       <<"max", Wrapper(UnwrappedRuntimeFunction("numpy", "", "max"))>>,
       <<"min", Object("int")>>,
       <<"Ellipsis", RuntimeClass("sentinels", "Ellipsis")>>,
       <<"K", RuntimeClass("vendor", "K")>> >>
    \o (IF m # ModuleNames[1] /\ root[1].parses /\ root[1].top = None /\ root[1].srcs # <<>>
        THEN << <<"helper", Wrapper(UnwrappedRuntimeFunction(ModuleNames[1], "", "outer"))>> >>
        ELSE <<>>)

\* The __dict__ of the live module: what the module defines and what it imports.
ModuleDict(f) ==
    LET own == SelectSeq(Program(f), LAMBDA n : n.kind \in {"ClassDef", "FunctionDef"}
                                                /\ n.cls = 0 /\ n.scope = 0 /\ n.rt # None)
    IN  [q \in DOMAIN own |-> <<own[q].id, own[q].rt[1]>>] \o ImportedNames(f.name)

Seed(d, id, terms) == [d |-> d, id |-> id, terms |-> terms]

\* Lines 120-132: public builtins that are classes or functions.
BuiltinSeeds ==
    LET kept == SelectSeq(BuiltinsDict, LAMBDA e :
                    /\ ~StartsWithUnderscore(e[1])
                    /\ unwrap(e[2]).tag \in {"RuntimeClass", "UnwrappedRuntimeFunction"})
    IN  [q \in DOMAIN kept |->
            Seed("builtin", kept[q][1],
                 IF unwrap(kept[q][2]).tag = "RuntimeClass"
                 THEN Some({unwrap(kept[q][2])})
                 ELSE Some({runtime_term_of_unwrapped_runtime_function(unwrap(kept[q][2]))}))]

\* Lines 134-141: the singleton literals.
SingletonSeeds ==
    [q \in DOMAIN Singletons |->
        Seed("singleton", Singletons[q][1],
             Some({Instance(RuntimeClass("builtins", Singletons[q][2]))}))]

\* A seeding that does not look the function up in the bridge.
ImportedTermUnbridged(runtime_object, functions_to_definitions) ==
    LET u == unwrap(runtime_object)
    IN  IF u.tag \in {"Module", "RuntimeClass"} THEN Some({u})
        ELSE IF u.tag = "UnwrappedRuntimeFunction"
        THEN Some({runtime_term_of_unwrapped_runtime_function(u)})
        ELSE None

\* A seeding that takes any other object for an instance of its type.
ImportedTermOfAnyObject(runtime_object, functions_to_definitions) ==
    LET u == unwrap(runtime_object)
    IN  IF u.tag \in {"Module", "RuntimeClass"} THEN Some({u})
        ELSE IF u.tag = "UnwrappedRuntimeFunction"
        THEN LET processed == runtime_term_of_unwrapped_runtime_function(u)
             IN  IF processed \in DOMAIN functions_to_definitions
                 THEN Some({functions_to_definitions[processed]})
                 ELSE Some({processed})
        ELSE Some({Instance(RuntimeClass("builtins", u.type))})

\* Lines 145-158: the term of an imported runtime object, None when it has none.
ImportedTerm(runtime_object, functions_to_definitions) ==
    LET u == unwrap(runtime_object)
    IN  CASE u.tag = "Module" -> Some({u})
          [] u.tag = "RuntimeClass" -> Some({u})
          [] u.tag = "UnwrappedRuntimeFunction" ->
                LET processed == runtime_term_of_unwrapped_runtime_function(u)
                IN  IF processed \in DOMAIN functions_to_definitions
                    THEN Some({functions_to_definitions[processed]})
                    ELSE Some({processed})
          [] OTHER -> None

\* Lines 143-170: the imported names; an entry with terms None is logged, not seeded.
ImportSeeds(imported, functions_to_definitions) ==
    [q \in DOMAIN imported |->
        Seed("import", imported[q][1], ImportedTerm(imported[q][2], functions_to_definitions))]

\* Lines 174-183: the classes the module itself defines.
ClassSeeds(module_name, module_dict) ==
    LET kept == SelectSeq(module_dict, LAMBDA e :
                    unwrap(e[2]).tag = "RuntimeClass" /\ unwrap(e[2]).module = module_name)
    IN  [q \in DOMAIN kept |-> Seed("class", kept[q][1], Some({unwrap(kept[q][2])}))]

\* The seeding with the module's own classes first.
SeedStepsClassesFirst(module_name, module_dict, imported, functions_to_definitions) ==
    ClassSeeds(module_name, module_dict) \o BuiltinSeeds \o SingletonSeeds
        \o ImportSeeds(imported, functions_to_definitions)

\* Lines 117-183: builtins, then singletons, then imports, then own classes.
SeedSteps(module_name, module_dict, imported, functions_to_definitions) ==
    BuiltinSeeds \o SingletonSeeds \o ImportSeeds(imported, functions_to_definitions)
        \o ClassSeeds(module_name, module_dict)

\* names_to_dummy_definition_nodes after the seeding steps, in order.
RECURSIVE SeedNames(_, _, _)
SeedNames(names, module_name, steps) ==
    IF steps = <<>> THEN names
    ELSE LET s == Head(steps)
             node == DummyNode(module_name, s.d, s.id)
         IN  SeedNames(IF s.terms = None THEN names
                       ELSE [x \in DOMAIN names \cup {s.id} |->
                                IF x = s.id THEN node ELSE names[x]],
                       module_name, Tail(steps))

\* The term store after the seeding steps.
RECURSIVE SeedTerms(_, _, _)
SeedTerms(store, module_name, steps) ==
    IF steps = <<>> THEN store
    ELSE LET s == Head(steps)
         IN  SeedTerms(IF s.terms = None THEN store
                       ELSE update_runtime_terms(store, DummyNode(module_name, s.d, s.id),
                                                 s.terms[1]),
                       module_name, Tail(steps))

\* Lines 166-170: one logging.error per imported name without a term.
SeedLog(module_name, steps) ==
    LET bad == SelectSeq(steps, LAMBDA s : s.terms = None)
    IN  [q \in DOMAIN bad |->
            [level |-> "error", what |-> "import-term", name |-> module_name,
             imported |-> bad[q].id]]

-----------------------------------------------------------------------------
(* get_use_define_mapping and lines 191-195: the definition node of each    *)
(* name node.  A scope has one definition node per name, its first binding; *)
(* a read resolves in its own scope, then in the enclosing function scopes  *)
(* (class bodies are skipped), then in module scope, then in the dummy      *)
(* table; a read before the first assignment of a scope that assigns the    *)
(* name is flagged and resolved to nothing.                                 *)

\* The nodes that bind name x directly in a scope: in the body of class `cls`, or
\* (cls = 0) in the function, comprehension or module `scope`.
BindingsIn(P, x, scope, cls) ==
    {q \in DOMAIN P :
        /\ P[q].id = x /\ P[q].cls = cls /\ P[q].scope = scope
        /\ \/ P[q].kind \in {"FunctionDef", "ClassDef"}
           \/ P[q].kind = "Name" /\ P[q].ctx = "Store"}

Bindings(P, x, scope) == BindingsIn(P, x, scope, 0)

Min(S) == CHOOSE x \in S : \A y \in S : x <= y

\* The binding of x in the nearest of `scope` and the function scopes around it.
RECURSIVE EnclosingDefinition(_, _, _, _)
EnclosingDefinition(module_name, P, x, scope) ==
    IF Bindings(P, x, scope) # {}
    THEN Some(AstNode(module_name, Min(Bindings(P, x, scope))))
    ELSE IF scope = 0 THEN None
    ELSE EnclosingDefinition(module_name, P, x, P[scope].scope)

\* A resolver that flags no read.
NoUseBeforeAssignment(P, n) == FALSE

\* A read of a name before the first assignment of its own scope to it.
UseBeforeAssignment(P, n) ==
    /\ P[n].kind = "Name" /\ P[n].ctx = "Load"
    /\ BindingsIn(P, P[n].id, P[n].scope, P[n].cls) # {}
    /\ \A q \in BindingsIn(P, P[n].id, P[n].scope, P[n].cls) : q > n

DefinitionOf(module_name, P, n, names) ==
    LET x == P[n].id
        own == BindingsIn(P, x, P[n].scope, P[n].cls)
        around == IF P[n].cls # 0 THEN EnclosingDefinition(module_name, P, x, P[n].scope)
                  ELSE IF P[n].scope = 0 THEN None
                  ELSE EnclosingDefinition(module_name, P, x, P[P[n].scope].scope)
    IN  IF own # {}
        THEN IF UseBeforeAssignment(P, n) THEN None
             ELSE Some(AstNode(module_name, Min(own)))
        ELSE IF around # None THEN around
        ELSE IF x \in DOMAIN names THEN Some(names[x])
        ELSE None

\* The resolver's flags, one per read before assignment.
UseBeforeAssignmentLog(module_name, P) ==
    LET flagged == SelectSeq([q \in DOMAIN P |-> q], LAMBDA q : UseBeforeAssignment(P, q))
    IN  [q \in DOMAIN flagged |->
            [level |-> "warning", what |-> "use-before-assignment", name |-> module_name,
             node |-> flagged[q]]]

\* The resolver's result: each definition node with the set of the name nodes
\* that resolve to it.
get_use_define_mapping(module_name, P, names) ==
    LET definition == [n \in {q \in DOMAIN P : P[q].kind = "Name"} |->
                          DefinitionOf(module_name, P, n, names)]
        resolved == {n \in DOMAIN definition : definition[n] # None}
    IN  [d \in {definition[n][1] : n \in resolved} |->
            {AstNode(module_name, n) : n \in {q \in resolved : definition[q][1] = d}}]

\* A comprehension with key and value swapped.
DefinitionNodeToNodeMapping(use_define_mapping) ==
    [d \in DOMAIN use_define_mapping |-> CHOOSE node \in use_define_mapping[d] : TRUE]

\* Lines 191-195: every node of a set is mapped to the set's definition node.
NodeToDefinitionNodeMapping(use_define_mapping) ==
    [node \in UNION {use_define_mapping[d] : d \in DOMAIN use_define_mapping} |->
        CHOOSE d \in DOMAIN use_define_mapping : node \in use_define_mapping[d]]

-----------------------------------------------------------------------------
(* get_attribute_access_result: the term an attribute access on a term      *)
(* denotes, None when the attribute is not found.                           *)

ModuleNamespace(module) ==
    IF module.name = "os"
    THEN [a \in {"getcwd"} |-> Wrapper(UnwrappedRuntimeFunction("posix", "", "getcwd"))]
    ELSE [a \in {} |-> Object("object")]

FunctionTerm(u, functions_to_definitions) ==
    IF u \in DOMAIN functions_to_definitions THEN functions_to_definitions[u] ELSE u

get_attribute_access_result(runtime_term, attr, functions_to_definitions) ==
    CASE runtime_term.tag = "Module" ->
            IF attr \in DOMAIN ModuleNamespace(runtime_term)
            THEN LET u == unwrap(ModuleNamespace(runtime_term)[attr])
                 IN  IF u.tag = "UnwrappedRuntimeFunction"
                     THEN Some(FunctionTerm(u, functions_to_definitions))
                     ELSE IF u.tag = "Object"
                     THEN Some(Instance(RuntimeClass("builtins", u.type)))
                     ELSE Some(u)
            ELSE None
      [] runtime_term.tag = "RuntimeClass" ->
            LET dict == get_comprehensive_dict_for_runtime_class(runtime_term)
            IN  IF attr \in DOMAIN dict
                THEN Some(UnboundMethod(runtime_term,
                                        FunctionTerm(unwrap(dict[attr]), functions_to_definitions)))
                ELSE None
      [] runtime_term.tag = "Instance" ->
            LET dict == get_comprehensive_dict_for_runtime_class(runtime_term.class_)
            IN  IF attr \in DOMAIN dict
                THEN Some(BoundMethod(runtime_term,
                                      FunctionTerm(unwrap(dict[attr]), functions_to_definitions)))
                ELSE None
      [] OTHER -> None

-----------------------------------------------------------------------------
(* modified_handle_local_syntax_directed_typing_constraints.py              *)

\* Lines 37-53: terms are read from and written to the node's definition node.
DefinitionNode(mapping, node) == IF node \in DOMAIN mapping THEN mapping[node] ELSE node

get_runtime_terms_of_definition_node(store, mapping, node) ==
    get_runtime_terms(store, DefinitionNode(mapping, node))

update_runtime_terms_of_definition_node(store, mapping, node, runtime_terms) ==
    update_runtime_terms(store, DefinitionNode(mapping, node), runtime_terms)

\* An update with the class itself in place of an Instance of it.
update_runtime_terms_of_definition_node_from_the_class(store, mapping, node, runtime_class) ==
    update_runtime_terms_of_definition_node(store, mapping, node, {runtime_class})

\* Lines 55-59.
update_runtime_terms_of_definition_node_from_runtime_class(store, mapping, node, runtime_class) ==
    update_runtime_terms_of_definition_node(store, mapping, node, {Instance(runtime_class)})

\* Lines 95-97: the callee fields, all None before the loop over the terms.
NoCallee ==
    [callee_module_name |-> None, callee_class_name |-> None,
     callee_function_name |-> None, callee_function |-> None]

\* Lines 109-112 (and the like in each branch): the four callee fields are assigned
\* together.
Callee(module, class, function) ==
    [callee_module_name |-> Some(module), callee_class_name |-> Some(class),
     callee_function_name |-> Some(function.name), callee_function |-> Some(function)]

FunctionCalleeKeepsClass(function, carried) ==
    [Callee(function.module, "global", function)
        EXCEPT !.callee_class_name = carried.callee_class_name]

\* Lines 123-127 and 129-132: a plain function is reported under class 'global'.
FunctionCallee(function, carried) ==
    Callee(function.module, "global", function)

\* Method branches that report a method as a plain function.
MethodCalleeGlobal(c, function, carried, functions_to_definitions, definitions_to_functions) ==
    IF function.tag = "FunctionDefinition" /\ function \in DOMAIN definitions_to_functions
    THEN Callee(c.module, "global", definitions_to_functions[function])
    ELSE IF function.tag = "UnwrappedRuntimeFunction"
            /\ function \in DOMAIN functions_to_definitions
    THEN Callee(c.module, "global", function)
    ELSE carried

\* The method branches, lines 133-147 and 158-172: `function` of a term carried by
\* class `c`.
MethodCallee(c, function, carried, functions_to_definitions, definitions_to_functions) ==
    IF function.tag = "FunctionDefinition" /\ function \in DOMAIN definitions_to_functions
    THEN Callee(c.module, c.name, definitions_to_functions[function])
    ELSE IF function.tag = "UnwrappedRuntimeFunction"
            /\ function \in DOMAIN functions_to_definitions
    THEN Callee(c.module, c.name, function)
    ELSE carried

\* Lines 106-172: the callee fields after the branches for one term; `carried` is
\* what the fields held when the iteration began.
CalleeFields(runtime_term, carried, functions_to_definitions, definitions_to_functions) ==
    CASE runtime_term.tag = "RuntimeClass" ->
            IF get_unwrapped_constructor(runtime_term) \in DOMAIN functions_to_definitions
            THEN Callee(runtime_term.module, runtime_term.name,
                        get_unwrapped_constructor(runtime_term))
            ELSE carried
      [] runtime_term.tag = "FunctionDefinition" ->
            IF runtime_term \in DOMAIN definitions_to_functions
            THEN FunctionCallee(definitions_to_functions[runtime_term], carried)
            ELSE carried
      [] runtime_term.tag = "UnwrappedRuntimeFunction" ->
            IF runtime_term \in DOMAIN functions_to_definitions
            THEN FunctionCallee(runtime_term, carried)
            ELSE carried
      [] runtime_term.tag = "UnboundMethod" ->
            MethodCallee(runtime_term.class_, runtime_term.function, carried,
                         functions_to_definitions, definitions_to_functions)
      [] runtime_term.tag = "Instance" ->
            LET dict == get_comprehensive_dict_for_runtime_class(runtime_term.class_)
            IN  IF "__call__" \in DOMAIN dict
                   /\ unwrap(dict["__call__"]) \in DOMAIN functions_to_definitions
                THEN Callee(runtime_term.class_.module, runtime_term.class_.name,
                            unwrap(dict["__call__"]))
                ELSE carried
      [] runtime_term.tag = "BoundMethod" ->
            MethodCallee(runtime_term.instance.class_, runtime_term.function, carried,
                         functions_to_definitions, definitions_to_functions)
      [] OTHER -> carried

\* str() of an optional value, as an f-string prints it.
Str(v) == IF v = None THEN "None" ELSE ToString(v[1])
StrName(v) == IF v = None THEN "None" ELSE v[1]

\* Caller fields taken from the function that encloses a lambda or comprehension.
CallerFieldsOfEnclosingFunction(module_name, P, n) ==
    LET inner == P[n].scope
        scope == IF inner # 0 /\ P[inner].kind \notin {"FunctionDef", "AsyncFunctionDef"}
                 THEN P[inner].scope ELSE inner
    IN  [caller_module_name |-> module_name,
         caller_function_name |-> IF scope # 0 THEN Some(P[scope].id) ELSE None,
         call_line |-> Some(P[n].lineno),
         caller_function_start |-> IF scope # 0 THEN Some(P[scope].lineno) ELSE None,
         caller_function_end |-> IF scope # 0 THEN Some(P[scope].end_lineno) ELSE None]

\* Lines 98-102: the caller fields, from the innermost scope-providing node (the
\* module itself, without name or line, at module level).
CallerFields(module_name, P, n) ==
    LET scope == P[n].scope
    IN  [caller_module_name |-> module_name,
         caller_function_name |->
            IF scope # 0 /\ P[scope].kind \in {"FunctionDef", "AsyncFunctionDef", "ClassDef"}
            THEN Some(P[scope].id) ELSE None,
         call_line |-> Some(P[n].lineno),
         caller_function_start |-> IF scope # 0 THEN Some(P[scope].lineno) ELSE None,
         caller_function_end |-> IF scope # 0 THEN Some(P[scope].end_lineno) ELSE None]

\* An end line that counts one line too many.
EndLineOffByOne(start_line, source_lines) == start_line + source_lines

\* Line 176.
EndLine(start_line, source_lines) == start_line + source_lines - 1

\* Line 178: the printed line, as its pieces.
FormatRecord(c, start_line, end_line, caller, sig) ==
    << c.callee_module_name[1], ",", c.callee_class_name[1], ",",
       c.callee_function_name[1], ",", ToString(start_line), ",", ToString(end_line), ",",
       caller.caller_module_name, ",", StrName(caller.caller_function_name), ",",
       Str(caller.call_line), ",", Str(caller.caller_function_start), ",",
       Str(caller.caller_function_end), ",", "\"", sig, "\"" >>

\* Line 174: the emission guard.
EmissionGuard(c) ==
    c.callee_module_name # None /\ c.callee_class_name # None
        /\ c.callee_function_name # None

\* An Instance update made only under the constructor test of line 108.
InstanceUpdateIfKnown(store, mapping, node, runtime_term, functions_to_definitions) ==
    IF runtime_term.tag = "RuntimeClass"
       /\ get_unwrapped_constructor(runtime_term) \in DOMAIN functions_to_definitions
    THEN update_runtime_terms_of_definition_node(store, mapping, node, {Instance(runtime_term)})
    ELSE store

\* Lines 115-119: a class term adds an Instance of the class to the call node.
InstanceUpdate(store, mapping, node, runtime_term, functions_to_definitions) ==
    IF runtime_term.tag = "RuntimeClass"
    THEN update_runtime_terms_of_definition_node(store, mapping, node, {Instance(runtime_term)})
    ELSE store

\* One iteration of the loop of line 105 for `runtime_term`: the branches, the
\* Instance added for a class, then the emission of lines 174-178.  `st` holds the
\* callee fields, the store, the lines printed and the exception raised, if any.
CallIteration(st, module_name, P, n, mapping, runtime_term, functions_to_definitions, definitions_to_functions) ==
    LET c == CalleeFields(runtime_term, st.fields, functions_to_definitions,
                          definitions_to_functions)
        store == InstanceUpdate(st.store, mapping, AstNode(module_name, n), runtime_term,
                                functions_to_definitions)
        src == getsourcelines(c.callee_function[1])
    IN  IF ~EmissionGuard(c)
        THEN [st EXCEPT !.fields = c, !.store = store]
        ELSE IF src = None
        THEN [st EXCEPT !.fields = c, !.store = store, !.raised = Some("OSError")]
        ELSE [st EXCEPT !.fields = c, !.store = store,
                        !.out = Append(@,
                            [text |-> FormatRecord(c, src[1].start,
                                                   EndLine(src[1].start, src[1].n),
                                                   CallerFields(module_name, P, n),
                                                   signature(c.callee_function[1])),
                             node |-> AstNode(module_name, n),
                             term |-> runtime_term])]

\* Lines 104-178: the loop over the callee's terms, in the order `order`.
RECURSIVE CallLoop(_, _, _, _, _, _, _, _)
CallLoop(st, module_name, P, n, mapping, order, functions_to_definitions, definitions_to_functions) ==
    IF order = <<>> \/ st.raised # None THEN st
    ELSE CallLoop(CallIteration(st, module_name, P, n, mapping, Head(order),
                                functions_to_definitions, definitions_to_functions),
                  module_name, P, n, mapping, Tail(order), functions_to_definitions,
                  definitions_to_functions)

\* A transfer of the value's own terms to every target.
RECURSIVE TransferOfValue(_, _, _, _)
TransferOfValue(store, mapping, targets, terms) ==
    IF targets = <<>> THEN store
    ELSE TransferOfValue(
            update_runtime_terms_of_definition_node(store, mapping, Head(targets), terms),
            mapping, Tail(targets), terms)

AssignTransferOfValue(store, mapping, chain) ==
    IF Len(chain) < 2 THEN store
    ELSE TransferOfValue(store, mapping, Tail(chain),
                         get_runtime_terms_of_definition_node(store, mapping, chain[1]))

\* A transfer to the target next to the value only.
AssignTransferToOneTarget(store, mapping, chain) ==
    IF Len(chain) < 2 THEN store
    ELSE update_runtime_terms_of_definition_node(
            store, mapping, chain[2],
            get_runtime_terms_of_definition_node(store, mapping, chain[1]))

\* Lines 224-234: each target, right to left, inherits from the node to its right.
RECURSIVE AssignTransfer(_, _, _)
AssignTransfer(store, mapping, chain) ==
    IF Len(chain) < 2 THEN store
    ELSE AssignTransfer(
            update_runtime_terms_of_definition_node(
                store, mapping, chain[2],
                get_runtime_terms_of_definition_node(store, mapping, chain[1])),
            mapping, Tail(chain))

\* Line 226: reversed(...).
Reverse(s) == [p \in DOMAIN s |-> s[Len(s) + 1 - p]]

\* The targets with every list or tuple pattern replaced by its element names,
\* then the value.
RECURSIVE Unpacked(_, _, _)
Unpacked(module_name, P, targets) ==
    IF targets = <<>> THEN <<>>
    ELSE (IF P[Head(targets)].elts # <<>>
          THEN [q \in DOMAIN P[Head(targets)].elts |->
                    AstNode(module_name, P[Head(targets)].elts[q])]
          ELSE <<AstNode(module_name, Head(targets))>>)
         \o Unpacked(module_name, P, Tail(targets))

UnpackedTargetsAndValue(module_name, P, n) ==
    Unpacked(module_name, P, P[n].targets) \o <<AstNode(module_name, P[n].ref)>>

\* Line 226: node.targets + [node.value].
TargetsAndValue(module_name, P, n) ==
    [q \in 1 .. Len(P[n].targets) + 1 |->
        IF q <= Len(P[n].targets)
        THEN AstNode(module_name, P[n].targets[q])
        ELSE AstNode(module_name, P[n].ref)]

\* An augmented assignment handled as an assignment.
AssignKindsWithAugAssign == {"Assign", "AugAssign"}

\* Line 224: isinstance(node, ast.Assign).
AssignKinds == {"Assign"}

LiteralKinds ==
    {"Constant", "JoinedStr", "List", "Tuple", "Set", "Dict",
     "ListComp", "SetComp", "GeneratorExp", "DictComp"}

\* The class whose Instance a literal, display or comprehension node gets.
LiteralClass(node) ==
    CASE node.kind = "Constant" -> RuntimeClass("builtins", node.value)
      [] node.kind = "JoinedStr" -> RuntimeClass("builtins", "str")
      [] node.kind \in {"List", "ListComp"} -> RuntimeClass("builtins", "list")
      [] node.kind = "Tuple" -> RuntimeClass("builtins", "tuple")
      [] node.kind \in {"Set", "SetComp"} -> RuntimeClass("builtins", "set")
      [] node.kind \in {"Dict", "DictComp"} -> RuntimeClass("builtins", "dict")
      [] node.kind = "GeneratorExp" -> RuntimeClass("collections.abc", "Generator")

\* A loop that is left after its first iteration.
attribute_access_results_of_first_term(terms, attr, functions_to_definitions) ==
    IF terms = {} THEN {}
    ELSE LET r == get_attribute_access_result(CHOOSE t \in terms : TRUE, attr,
                                              functions_to_definitions)
         IN  IF r = None THEN {} ELSE {r[1]}

\* Lines 183-192: the results of the attribute access on each term of the value;
\* a term on which the attribute is not found (result None) adds none.
attribute_access_results(terms, attr, functions_to_definitions) ==
    {r[1] : r \in {get_attribute_access_result(t, attr, functions_to_definitions) :
                      t \in terms} \ {None}}

\* handle_local_syntax_directed_typing_constraints_callback, lines 61-255, on node n
\* of module P: the store, the lines printed and the exception raised, if any.
\* `order` is the order in which a call's callee terms are iterated.
Callback(module_name, P, n, store, mapping, class_definitions_to_runtime_classes, functions_to_definitions, definitions_to_functions, order) ==
    LET node == AstNode(module_name, n)
        st == [fields |-> NoCallee, store |-> store, out |-> <<>>, raised |-> None]
    IN  CASE P[n].kind \in LiteralKinds ->
                [st EXCEPT !.store = update_runtime_terms_of_definition_node_from_runtime_class(
                                        store, mapping, node, LiteralClass(P[n]))]
          [] P[n].kind = "Call" ->
                CallLoop(st, module_name, P, n, mapping, order, functions_to_definitions,
                         definitions_to_functions)
          [] P[n].kind = "Attribute" ->
                [st EXCEPT !.store = update_runtime_terms_of_definition_node(
                        store, mapping, node,
                        attribute_access_results(
                            get_runtime_terms_of_definition_node(
                                store, mapping, AstNode(module_name, P[n].ref)),
                            P[n].id, functions_to_definitions))]
          [] P[n].kind = "NamedExpr" ->
                [st EXCEPT !.store = AssignTransfer(store, mapping,
                        <<AstNode(module_name, P[n].ref), AstNode(module_name, P[n].targets[1])>>)]
          [] P[n].kind \in AssignKinds ->
                [st EXCEPT !.store = AssignTransfer(store, mapping,
                                        Reverse(TargetsAndValue(module_name, P, n)))]
          [] P[n].kind = "AnnAssign" ->
                IF P[n].ref # 0
                THEN [st EXCEPT !.store = AssignTransfer(store, mapping,
                        <<AstNode(module_name, P[n].ref), AstNode(module_name, P[n].targets[1])>>)]
                ELSE st
          [] P[n].kind \in {"FunctionDef", "AsyncFunctionDef", "Lambda"} ->
                [st EXCEPT !.store = update_runtime_terms_of_definition_node(
                                        store, mapping, node, {FunctionDefinition(node)})]
          [] P[n].kind = "ClassDef" ->
                IF node \in DOMAIN class_definitions_to_runtime_classes
                THEN [st EXCEPT !.store = update_runtime_terms_of_definition_node(
                                        store, mapping, node,
                                        {class_definitions_to_runtime_classes[node]})]
                ELSE st
          [] OTHER -> st

\* The terms a call node's loop iterates over (empty for any other node).
CalleeTerms(module_name, P, n, store, mapping) ==
    IF P[n].kind = "Call"
    THEN get_runtime_terms_of_definition_node(store, mapping, AstNode(module_name, P[n].ref))
    ELSE {}

-----------------------------------------------------------------------------
(* The pipeline.                                                            *)

Init ==
    /\ root \in PipelineRoots \cup RichRoots
    /\ module_name_to_file_path_dict = do_static_import_analysis(root)
    /\ log = StaticAnalysisLog(root)
    /\ i = 1
    /\ module_name_to_module_node = <<>>
    /\ module_name_to_module = <<>>
    /\ pc = "import"
    /\ raised = None
    /\ top_level_class_definitions_to_runtime_classes = <<>>
    /\ unwrapped_runtime_functions_to_named_function_definitions = <<>>
    /\ named_function_definitions_to_unwrapped_runtime_functions = <<>>
    /\ j = 0
    /\ k = 0
    /\ names_to_dummy_definition_nodes = <<>>
    /\ node_to_definition_node_mapping = <<>>
    /\ node_runtime_terms = <<>>
    /\ stdout = <<>>
    /\ analysed = {}
    /\ rerun = [terms |-> <<>>, stdout |-> <<>>, raised |-> None]

\* One iteration of the import loop, lines 65-76.
ImportModule ==
    /\ pc = "import"
    /\ i <= Len(module_name_to_file_path_dict)
    /\ LET f == module_name_to_file_path_dict[i]
           exc == ImportAttempt(f)
       IN  IF IsSpecialFile(f.path)
           THEN /\ i' = i + 1
                /\ UNCHANGED <<module_name_to_module_node, module_name_to_module, log, pc, raised>>
           ELSE IF exc = None
           THEN /\ module_name_to_module_node' =
                        StoreImported(module_name_to_module_node, f.name, Program(f))
                /\ module_name_to_module' =
                        StoreImported(module_name_to_module, f.name, ModuleDict(f))
                /\ i' = i + 1
                /\ UNCHANGED <<log, pc, raised>>
           ELSE IF ImportErrorIsCaught(exc[1])
           THEN /\ log' = Append(log, [level |-> "exception", what |-> "import", name |-> f.name])
                /\ i' = i + 1
                /\ UNCHANGED <<module_name_to_module_node, module_name_to_module, pc, raised>>
           ELSE /\ pc' = "aborted"
                /\ raised' = exc
                /\ UNCHANGED <<module_name_to_module_node, module_name_to_module, log, i>>
    /\ UNCHANGED <<root, module_name_to_file_path_dict,
                   top_level_class_definitions_to_runtime_classes,
                   unwrapped_runtime_functions_to_named_function_definitions,
                   named_function_definitions_to_unwrapped_runtime_functions,
                   j, k, names_to_dummy_definition_nodes, node_to_definition_node_mapping,
                   node_runtime_terms, stdout, analysed, rerun>>

\* Lines 78-102, once the import loop has ended.
BuildBridge ==
    /\ pc = "import"
    /\ i > Len(module_name_to_file_path_dict)
    /\ top_level_class_definitions_to_runtime_classes' =
            ClassDefinitionsToRuntimeClasses(module_name_to_module_node)
    /\ unwrapped_runtime_functions_to_named_function_definitions' =
            FunctionsToDefinitions(module_name_to_module_node)
    /\ named_function_definitions_to_unwrapped_runtime_functions' =
            InvertMapping(FunctionsToDefinitions(module_name_to_module_node))
    /\ j' = 1
    /\ pc' = "seed"
    /\ UNCHANGED <<root, module_name_to_file_path_dict, i, module_name_to_module_node,
                   module_name_to_module, log, raised, k, names_to_dummy_definition_nodes,
                   node_to_definition_node_mapping, node_runtime_terms, stdout, analysed,
                   rerun>>

\* The module the module loop of line 116 is at.
CurrentModule == module_name_to_module_node[j]

\* Lines 117-195 for the module the loop is at: the dummy definition nodes and
\* their terms, then the def-use mapping.
SeedModule ==
    /\ pc = "seed"
    /\ j <= Len(module_name_to_module_node)
    /\ LET m == CurrentModule.name
           steps == SeedSteps(m, TableGet(module_name_to_module, m), ImportedNames(m),
                              unwrapped_runtime_functions_to_named_function_definitions)
           names == SeedNames(<<>>, m, steps)
       IN  /\ names_to_dummy_definition_nodes' = names
           /\ node_runtime_terms' = SeedTerms(node_runtime_terms, m, steps)
           /\ rerun' = [rerun EXCEPT !.terms = SeedTerms(@, m, steps)]
           /\ log' = log \o SeedLog(m, steps) \o UseBeforeAssignmentLog(m, CurrentModule.value)
           /\ node_to_definition_node_mapping' =
                    NodeToDefinitionNodeMapping(
                        get_use_define_mapping(m, CurrentModule.value, names))
    /\ k' = 1
    /\ pc' = "visit"
    /\ UNCHANGED <<root, module_name_to_file_path_dict, i, module_name_to_module_node,
                   module_name_to_module, raised,
                   top_level_class_definitions_to_runtime_classes,
                   unwrapped_runtime_functions_to_named_function_definitions,
                   named_function_definitions_to_unwrapped_runtime_functions,
                   j, stdout, analysed>>

\* The callback on one node of the second run, which stops once it has raised.
RerunVisit(order) ==
    IF rerun.raised # None THEN rerun
    ELSE LET st == Callback(CurrentModule.name, CurrentModule.value, k, rerun.terms,
                            node_to_definition_node_mapping,
                            top_level_class_definitions_to_runtime_classes,
                            unwrapped_runtime_functions_to_named_function_definitions,
                            named_function_definitions_to_unwrapped_runtime_functions, order)
         IN  [terms |-> st.store, stdout |-> rerun.stdout \o st.out, raised |-> st.raised]

\* The visitor calls the callback on the next node in evaluation order; an
\* exception raised by the callback leaves the module loop and ends the run.
VisitNode ==
    /\ pc = "visit"
    /\ k <= Len(CurrentModule.value)
    /\ \E order \in Orders(CalleeTerms(CurrentModule.name, CurrentModule.value, k,
                                       node_runtime_terms, node_to_definition_node_mapping)),
          order2 \in Orders(CalleeTerms(CurrentModule.name, CurrentModule.value, k,
                                        rerun.terms, node_to_definition_node_mapping)) :
          LET st == Callback(CurrentModule.name, CurrentModule.value, k, node_runtime_terms,
                             node_to_definition_node_mapping,
                             top_level_class_definitions_to_runtime_classes,
                             unwrapped_runtime_functions_to_named_function_definitions,
                             named_function_definitions_to_unwrapped_runtime_functions, order)
          IN  /\ node_runtime_terms' = st.store
              /\ stdout' = stdout \o st.out
              /\ raised' = st.raised
              /\ pc' = IF st.raised = None THEN "visit" ELSE "aborted"
              /\ k' = IF st.raised = None THEN k + 1 ELSE k
              /\ rerun' = RerunVisit(order2)
    /\ UNCHANGED <<root, module_name_to_file_path_dict, i, module_name_to_module_node,
                   module_name_to_module, log,
                   top_level_class_definitions_to_runtime_classes,
                   unwrapped_runtime_functions_to_named_function_definitions,
                   named_function_definitions_to_unwrapped_runtime_functions,
                   j, names_to_dummy_definition_nodes, node_to_definition_node_mapping,
                   analysed>>

\* The visitor has returned: the loop of line 116 moves to the next module.
EndModule ==
    /\ pc = "visit"
    /\ k > Len(CurrentModule.value)
    /\ analysed' = analysed \cup {CurrentModule.name}
    /\ j' = j + 1
    /\ pc' = "seed"
    /\ UNCHANGED <<root, module_name_to_file_path_dict, i, module_name_to_module_node,
                   module_name_to_module, log, raised,
                   top_level_class_definitions_to_runtime_classes,
                   unwrapped_runtime_functions_to_named_function_definitions,
                   named_function_definitions_to_unwrapped_runtime_functions,
                   k, names_to_dummy_definition_nodes, node_to_definition_node_mapping,
                   node_runtime_terms, stdout, rerun>>

\* The module loop has ended: the run is complete.
Finish ==
    /\ pc = "seed"
    /\ j > Len(module_name_to_module_node)
    /\ pc' = "done"
    /\ UNCHANGED <<root, module_name_to_file_path_dict, i, module_name_to_module_node,
                   module_name_to_module, log, raised,
                   top_level_class_definitions_to_runtime_classes,
                   unwrapped_runtime_functions_to_named_function_definitions,
                   named_function_definitions_to_unwrapped_runtime_functions,
                   j, k, names_to_dummy_definition_nodes, node_to_definition_node_mapping,
                   node_runtime_terms, stdout, analysed, rerun>>

Next == ImportModule \/ BuildBridge \/ SeedModule \/ VisitNode \/ EndModule \/ Finish

Spec == Init /\ [][Next]_vars

-----------------------------------------------------------------------------
(* Properties.                                                              *)

ProgramOf(m) == TableGet(module_name_to_module_node, m)

\* The module whose pass has just run to its end: the definition mapping is still
\* its own.
JustFinished(m) ==
    /\ pc \in {"seed", "done"}
    /\ j - 1 \in DOMAIN module_name_to_module_node
    /\ module_name_to_module_node[j - 1].name = m

\* The call nodes of the module whose pass has just run to its end.
FinishedCalls ==
    UNION {{AstNode(m, n) : n \in {q \in DOMAIN ProgramOf(m) : ProgramOf(m)[q].kind = "Call"}}
           : m \in {x \in analysed : JustFinished(x)}}

\* The terms of a call node's callee.
TermsOfCallee(call) ==
    get_runtime_terms_of_definition_node(node_runtime_terms, node_to_definition_node_mapping,
                                         AstNode(call.m, ProgramOf(call.m)[call.k].ref))

\* The callee a term resolves to by itself, NoCallee when it resolves to none.
Resolved(t) ==
    CalleeFields(t, NoCallee, unwrapped_runtime_functions_to_named_function_definitions,
                 named_function_definitions_to_unwrapped_runtime_functions)

RecordsOf(out, call) == SelectSeq(out, LAMBDA r : r.node = call)
Texts(out) == {out[p].text : p \in DOMAIN out}

\* The module loop is at, or has just left, the module of this node: the current
\* definition mapping is that module's.
InCurrentModule(node) ==
    \/ JustFinished(node.m)
    \/ pc \in {"visit", "aborted"} /\ j \in DOMAIN module_name_to_module_node
          /\ CurrentModule.name = node.m

\* C1: for every call node of a finished pass, each term of the callee's set that
\* resolves to a known function has exactly one record, and a term that does not
\* resolve has none.
C1_OneRecordPerResolvedTerm ==
    \A call \in FinishedCalls :
        \A t \in TermsOfCallee(call) :
            Len(SelectSeq(stdout, LAMBDA r : r.node = call /\ r.term = t))
                = IF Resolved(t) # NoCallee THEN 1 ELSE 0

\* C2: when the run has ended, every module of the module loop has been analysed,
\* except a module whose own analysis raised.
C2_LaterModulesAnalysed ==
    (pc \in {"done", "aborted"} /\ j >= 1) =>
        \A p \in DOMAIN module_name_to_module_node :
            \/ module_name_to_module_node[p].name \in analysed
            \/ pc = "aborted" /\ p = j

\* The entries of the file table the import loop has tried and whose import raised
\* an ImportError or a UnicodeError.
CaughtFailures ==
    {p \in 1 .. Len(module_name_to_file_path_dict) :
        /\ p < i \/ pc = "aborted"
        /\ p <= i
        /\ ~IsSpecialFile(module_name_to_file_path_dict[p].path)
        /\ ImportAttempt(module_name_to_file_path_dict[p]) # None
        /\ \/ IsSubclass(ImportAttempt(module_name_to_file_path_dict[p])[1], "ImportError")
           \/ IsSubclass(ImportAttempt(module_name_to_file_path_dict[p])[1], "UnicodeError")}

\* C3: a module whose import raised ImportError or a UnicodeError is logged, is in
\* neither table (the two tables have the same keys) and is never analysed, and the
\* loop went on past it: such an error never ends the run.
C3_CaughtImportFailure ==
    /\ TableNames(module_name_to_module_node) = TableNames(module_name_to_module)
    /\ \A p \in CaughtFailures :
          LET name == module_name_to_file_path_dict[p].name
          IN  /\ p < i
              /\ \E q \in DOMAIN log : log[q].what = "import" /\ log[q].name = name
              /\ name \notin Range(TableNames(module_name_to_module_node))
              /\ name \notin Range(TableNames(module_name_to_module))
              /\ name \notin analysed
    /\ (pc = "done") =>
          \A p \in DOMAIN module_name_to_module_node :
              module_name_to_module_node[p].name \in analysed

\* A UnicodeDecodeError was caught and a module after it was analysed.
C3_Witness ==
    \E p \in CaughtFailures :
        /\ module_name_to_file_path_dict[p].top = Some("UnicodeDecodeError")
        /\ \E q \in DOMAIN module_name_to_file_path_dict :
              q > p /\ module_name_to_file_path_dict[q].name \in analysed

\* C4: no failure to import a module ends the run.
C4_ImportFailureRecovered ==
    ~(pc = "aborted" /\ j = 0)

\* C5: a root of one file that fails to parse and one valid file: the run
\* completes, the unparsable file is logged and the valid file is analysed.
C5_ParseFailureIsolated ==
    \A p, q \in DOMAIN root :
        (/\ Len(root) = 2
         /\ ~root[p].parses
         /\ root[q].parses /\ ~IsSpecialFile(root[q].path)
         /\ root[q].top \in {None, Some("SyntaxError")}
         /\ root[q].srcs # <<"bad">>
         /\ pc \in {"done", "aborted"})
        => /\ pc = "done"
           /\ root[q].name \in analysed
           /\ \E x \in DOMAIN log : log[x].what = "parse" /\ log[x].name = root[p].name

\* C6: a step never removes a node from the term store nor a term from a node's
\* set: every set is a superset of what it was in the state before.
C6_Monotonic ==
    [][\A n \in DOMAIN node_runtime_terms :
          /\ n \in DOMAIN node_runtime_terms'
          /\ node_runtime_terms[n] \subseteq node_runtime_terms'[n]]_vars

\* A definition node that was written more than once holds the terms of every write.
C6_Witness ==
    \E n \in DOMAIN node_runtime_terms :
        n.d = "" /\ Cardinality(node_runtime_terms[n]) >= 2

\* C7: two runs over the same tree, each iterating every term set in an order of
\* its own, have printed the same set of records once both have ended.
C7_Deterministic ==
    pc \in {"done", "aborted"} => Texts(stdout) = Texts(rerun.stdout)

\* A printed line split at the commas outside double quotes.
RECURSIVE Split(_, _, _, _)
Split(text, field, quoted, fields) ==
    IF text = <<>> THEN Append(fields, field)
    ELSE IF Head(text) = "," /\ ~quoted
    THEN Split(Tail(text), <<>>, quoted, Append(fields, field))
    ELSE Split(Tail(text), Append(field, Head(text)),
               IF Head(text) = "\"" THEN ~quoted ELSE quoted, fields)

SplitFields(text) == Split(text, <<>>, FALSE, <<>>)

\* The fields of a record for callee `c` called at node `call`.
HasFields(f, c, call) ==
    LET P == ProgramOf(call.m)
        scope == P[call.k].scope
        function == c.callee_function[1]
        src == getsourcelines(function)[1]
    IN  /\ f[1] = <<c.callee_module_name[1]>>
        /\ f[2] = <<c.callee_class_name[1]>>
        /\ f[3] = <<function.name>>
        /\ f[4] = <<ToString(src.start)>>
        /\ f[5] = <<ToString(src.start + src.n - 1)>>
        /\ f[6] = <<call.m>>
        /\ f[7] = <<IF scope # 0 /\ P[scope].kind \in {"FunctionDef", "AsyncFunctionDef"}
                     THEN P[scope].id ELSE "None">>
        /\ f[8] = <<ToString(P[call.k].lineno)>>
        /\ f[9] = <<IF scope # 0 THEN ToString(P[scope].lineno) ELSE "None">>
        /\ f[10] = <<IF scope # 0 THEN ToString(P[scope].end_lineno) ELSE "None">>
        /\ f[11] = <<"\"", signature(function), "\"">>

CallsOfOneKnownFunction ==
    {call \in FinishedCalls :
        /\ ProgramOf(call.m)[call.k].scope # 0
        /\ ProgramOf(call.m)[ProgramOf(call.m)[call.k].scope].kind
              \in {"FunctionDef", "AsyncFunctionDef"}
        /\ \E t \in TermsOfCallee(call) :
              /\ TermsOfCallee(call) = {t}
              /\ t.tag = "FunctionDefinition" => (t.node.m = call.m => t.node.k < call.k)
              /\ t.tag \in {"FunctionDefinition", "UnwrappedRuntimeFunction"}
              /\ \/ t \in DOMAIN named_function_definitions_to_unwrapped_runtime_functions
                 \/ /\ t.tag = "UnwrappedRuntimeFunction"
                    /\ t \in DOMAIN unwrapped_runtime_functions_to_named_function_definitions}

\* The runtime function of a function term.
FunctionOf(t) ==
    IF t.tag = "FunctionDefinition"
    THEN named_function_definitions_to_unwrapped_runtime_functions[t] ELSE t

\* C9: a call in function bar whose callee's term set is one module function foo
\* known to the bridge maps has, once the pass is over, exactly one record; its
\* callee function is foo, its callee class 'global', its caller function bar.
C9_CallEmission ==
    \A call \in CallsOfOneKnownFunction :
        LET lines == RecordsOf(stdout, call)
            P == ProgramOf(call.m)
        IN  /\ Len(lines) = 1
            /\ \A t \in TermsOfCallee(call) :
                  SplitFields(lines[1].text)[3] = <<FunctionOf(t).name>>
            /\ SplitFields(lines[1].text)[2] = <<"global">>
            /\ SplitFields(lines[1].text)[7] = <<P[P[call.k].scope].id>>

C9_Witness ==
    \E call \in CallsOfOneKnownFunction :
        /\ RecordsOf(stdout, call) # <<>>
        /\ SplitFields(RecordsOf(stdout, call)[1].text)[3] = <<"foo">>
        /\ SplitFields(RecordsOf(stdout, call)[1].text)[7] = <<"bar">>

\* The assignments of the module just analysed whose value is a call of a callee
\* with one term, a class.
ClassInstantiations ==
    {a \in UNION {{AstNode(m, n) : n \in {q \in DOMAIN ProgramOf(m) :
                                            ProgramOf(m)[q].kind = "Assign"}}
                  : m \in {x \in analysed : JustFinished(x)}} :
        LET P == ProgramOf(a.m)
        IN  /\ P[P[a.k].ref].kind = "Call"
            /\ \E c \in TermsOfCallee(AstNode(a.m, P[a.k].ref)) :
                  /\ TermsOfCallee(AstNode(a.m, P[a.k].ref)) = {c}
                  /\ c.tag = "RuntimeClass"}

CallOf(a) == AstNode(a.m, ProgramOf(a.m)[a.k].ref)
ClassOf(a) == CHOOSE c \in TermsOfCallee(CallOf(a)) : TRUE
ConstructorKnown(c) ==
    get_unwrapped_constructor(c)
        \in DOMAIN unwrapped_runtime_functions_to_named_function_definitions

\* C10: for obj = SomeClass(), the callee's term set being {SomeClass}, once the
\* pass is over: the call node's term set is {Instance(SomeClass)}, the definition
\* node of obj holds Instance(SomeClass), and nothing else when this is its only
\* binding, and the call has one record, naming __init__ of SomeClass, when the
\* unwrapped constructor is in the native->definition map, and none otherwise.
C10_ClassInstantiation ==
    \A a \in ClassInstantiations :
        LET P == ProgramOf(a.m)
            c == ClassOf(a)
            lines == RecordsOf(stdout, CallOf(a))
            TermsOf(n) == get_runtime_terms_of_definition_node(
                              node_runtime_terms, node_to_definition_node_mapping,
                              AstNode(a.m, n))
        IN  /\ TermsOf(P[a.k].ref) = {Instance(c)}
            /\ \A q \in DOMAIN P[a.k].targets :
                  LET t == P[a.k].targets[q]
                  IN  /\ Instance(c) \in TermsOf(t)
                      /\ Cardinality(Bindings(P, P[t].id, P[t].scope)) = 1
                            => TermsOf(t) = {Instance(c)}
            /\ Len(lines) = IF ConstructorKnown(c) THEN 1 ELSE 0
            /\ \A q \in DOMAIN lines :
                  /\ SplitFields(lines[q].text)[2] = <<c.name>>
                  /\ SplitFields(lines[q].text)[3] = <<"__init__">>

\* A class with a source-defined constructor and a class without one have both
\* been instantiated.
C10_Witness ==
    /\ \E a \in ClassInstantiations :
          ConstructorKnown(ClassOf(a)) /\ Len(RecordsOf(stdout, CallOf(a))) = 1
    /\ \E a \in ClassInstantiations :
          /\ ~ConstructorKnown(ClassOf(a))
          /\ get_runtime_terms(node_runtime_terms, CallOf(a)) = {Instance(ClassOf(a))}

\* A function the bridge maps know, as a FunctionDefinition or as a native handle.
KnownFunction(fn) ==
    \/ fn \in DOMAIN named_function_definitions_to_unwrapped_runtime_functions
    \/ /\ fn.tag = "UnwrappedRuntimeFunction"
       /\ fn \in DOMAIN unwrapped_runtime_functions_to_named_function_definitions

\* The method terms among a call's callee terms whose function is known.
KnownMethods(call) ==
    {t \in TermsOfCallee(call) :
        t.tag \in {"UnboundMethod", "BoundMethod"} /\ KnownFunction(t.function)}

\* The class a method term carries.
ClassCarried(t) == IF t.tag = "UnboundMethod" THEN t.class_ ELSE t.instance.class_

\* C11: once the pass is over, every callee term of a call that is a method with a
\* function known to the bridge maps has one record, whose callee class is the
\* class the term carries (the class of an UnboundMethod, the class of the
\* instance of a BoundMethod), whose callee module is that class's and whose
\* callee function is the method.
C11_MethodDispatch ==
    \A call \in FinishedCalls : \A t \in KnownMethods(call) :
        LET lines == SelectSeq(stdout, LAMBDA r : r.node = call /\ r.term = t)
        IN  /\ Len(lines) = 1
            /\ SplitFields(lines[1].text)[1] = <<ClassCarried(t).module>>
            /\ SplitFields(lines[1].text)[2] = <<ClassCarried(t).name>>
            /\ SplitFields(lines[1].text)[3] = <<FunctionOf(t.function).name>>

\* a = A(); a.m() has its record for m with class A, and a method read from a
\* class has one too.
C11_Witness ==
    /\ \E r \in Range(stdout) :
          /\ r.term = BoundMethod(Instance(RuntimeClass(r.node.m, "A")),
                                  FunctionDefinition(AstNode(r.node.m, 5)))
          /\ SplitFields(r.text)[2] = <<"A">> /\ SplitFields(r.text)[3] = <<"m">>
    /\ \E call \in FinishedCalls : \E t \in KnownMethods(call) : t.tag = "UnboundMethod"

\* The callee an Instance term resolves to: its class has __call__ in its
\* comprehensive dict and the unwrapped provider is in the native->definition map.
CallProviderKnown(c) ==
    /\ "__call__" \in DOMAIN get_comprehensive_dict_for_runtime_class(c)
    /\ unwrap(get_comprehensive_dict_for_runtime_class(c)["__call__"])
          \in DOMAIN unwrapped_runtime_functions_to_named_function_definitions

\* C12: once the pass is over, a callee term Instance(C) of a call has a record if
\* and only if C's comprehensive dict holds __call__ and its unwrapped provider
\* is in the native->definition map; the record carries C's module and name and
\* the provider's name.
C12_CallableInstance ==
    \A call \in FinishedCalls : \A t \in TermsOfCallee(call) :
        t.tag = "Instance" =>
            LET lines == SelectSeq(stdout, LAMBDA r : r.node = call /\ r.term = t)
            IN  /\ Len(lines) = IF CallProviderKnown(t.class_) THEN 1 ELSE 0
                /\ \A q \in DOMAIN lines :
                      /\ SplitFields(lines[q].text)[1] = <<t.class_.module>>
                      /\ SplitFields(lines[q].text)[2] = <<t.class_.name>>
                      /\ SplitFields(lines[q].text)[3] = <<"__call__">>

\* The nodes of the module just analysed that are of one of these kinds.
FinishedNodes(kinds) ==
    UNION {{AstNode(m, n) : n \in {q \in DOMAIN ProgramOf(m) : ProgramOf(m)[q].kind \in kinds}}
           : m \in {x \in analysed : JustFinished(x)}}

\* The terms a node has through its definition node.
TermsOfNode(node) ==
    get_runtime_terms_of_definition_node(node_runtime_terms, node_to_definition_node_mapping,
                                         node)

\* The builtin type of a display or comprehension.
TypeOfDisplay(kind) ==
    CASE kind \in {"List", "ListComp"} -> "list"
      [] kind = "Tuple" -> "tuple"
      [] kind \in {"Set", "SetComp"} -> "set"
      [] kind \in {"Dict", "DictComp"} -> "dict"
      [] kind = "JoinedStr" -> "str"

\* C13: once the pass is over, the term set of a constant is {Instance(type of its
\* value)}, of an f-string {Instance(str)}, of a list, tuple, set or dict display
\* (an expression, not the target list of an assignment) and of a list, set or
\* dict comprehension {Instance(list/tuple/set/dict)}, and of a generator
\* expression {Instance(collections.abc.Generator)}.
C13_LiteralSoundness ==
    \A node \in FinishedNodes(LiteralKinds) :
        LET n == ProgramOf(node.m)[node.k]
        IN  n.ctx # "Store" =>
                TermsOfNode(node) =
                    {Instance(IF n.kind = "Constant" THEN RuntimeClass("builtins", n.value)
                              ELSE IF n.kind = "GeneratorExp"
                              THEN RuntimeClass("collections.abc", "Generator")
                              ELSE RuntimeClass("builtins", TypeOfDisplay(n.kind)))}

\* Literals of five primitive types, the four displays and the four
\* comprehensions have their term, and the target list of [a, b] = (1, 2) holds
\* the tuple's term besides its own.
C13_Witness ==
    /\ \A kind \in LiteralKinds : \E node \in FinishedNodes({kind}) : TermsOfNode(node) # {}
    /\ \A t \in {"int", "float", "str", "bool", "NoneType"} :
          \E node \in FinishedNodes({"Constant"}) :
              TermsOfNode(node) = {Instance(RuntimeClass("builtins", t))}
    /\ \E node \in FinishedNodes({"List"}) :
          TermsOfNode(node) = {Instance(RuntimeClass("builtins", "list")),
                               Instance(RuntimeClass("builtins", "tuple"))}

\* The chained assignments a = b = expr of the module just analysed whose value
\* has one term, an Instance.
ChainedAssignments ==
    {a \in FinishedNodes({"Assign"}) :
        LET P == ProgramOf(a.m)
        IN  /\ Len(P[a.k].targets) >= 2
            /\ \E t \in TermsOfNode(AstNode(a.m, P[a.k].ref)) :
                  TermsOfNode(AstNode(a.m, P[a.k].ref)) = {t} /\ t.tag = "Instance"}

\* C14: for a = b = expr whose value has the term set {Instance(C)}, once the pass
\* is over: every target holds what the node to its right holds (the last target
\* what the value holds), and, these names having no other binding, the
\* definition nodes of a and of b hold exactly {Instance(C)}.
C14_AssignmentTransfer ==
    \A a \in ChainedAssignments :
        LET P == ProgramOf(a.m)
            targets == P[a.k].targets
            value == TermsOfNode(AstNode(a.m, P[a.k].ref))
            Right(q) == IF q = Len(targets) THEN value
                        ELSE TermsOfNode(AstNode(a.m, targets[q + 1]))
        IN  /\ \A q \in DOMAIN targets : Right(q) \subseteq TermsOfNode(AstNode(a.m, targets[q]))
            /\ (\A q \in DOMAIN targets :
                    Cardinality(Bindings(P, P[targets[q]].id, P[targets[q]].scope)) = 1)
                  => \A q \in DOMAIN targets : TermsOfNode(AstNode(a.m, targets[q])) = value

\* obj = alt = f(1) with f a class: both names hold the Instance of the class.
C14_Witness ==
    \E a \in ChainedAssignments :
        LET P == ProgramOf(a.m)
        IN  /\ TermsOfNode(AstNode(a.m, P[a.k].targets[1]))
                  = {Instance(RuntimeClass(a.m, "K"))}
            /\ TermsOfNode(AstNode(a.m, P[a.k].targets[2]))
                  = {Instance(RuntimeClass(a.m, "K"))}
            /\ P[P[a.k].targets[1]].id = "obj" /\ P[P[a.k].targets[2]].id = "alt"

\* A read of a name that is neither a key of the def-use map nor a name of the
\* dummy table.
UnresolvedRead(m, n) ==
    LET P == ProgramOf(m)
    IN  /\ n \in DOMAIN P
        /\ P[n].kind = "Name" /\ P[n].ctx = "Load"
        /\ AstNode(m, n) \notin DOMAIN node_to_definition_node_mapping
        /\ P[n].id \notin DOMAIN names_to_dummy_definition_nodes

\* The callback is about to run on an assignment, an attribute access or a call
\* that consumes an unresolved read.
AtConsumerOfUnresolved ==
    /\ pc = "visit"
    /\ k \in DOMAIN CurrentModule.value
    /\ CurrentModule.value[k].kind \in {"Assign", "Attribute", "Call"}
    /\ UnresolvedRead(CurrentModule.name, CurrentModule.value[k].ref)

\* C15: a name read that is in neither the def-use map nor the dummy table has an
\* empty term set, and the rule that consumes it adds no term to any node, prints
\* no record and does not raise: the pass goes on to the next node.
C15_UnresolvedName ==
    [][AtConsumerOfUnresolved =>
          /\ TermsOfNode(AstNode(CurrentModule.name, CurrentModule.value[k].ref)) = {}
          /\ \A node \in DOMAIN node_runtime_terms' :
                node_runtime_terms'[node] =
                    IF node \in DOMAIN node_runtime_terms THEN node_runtime_terms[node] ELSE {}
          /\ stdout' = stdout
          /\ raised' = None /\ pc' = "visit" /\ k' = k + 1]_vars

\* The pass is over and the names assigned from the unresolved name, and from its
\* attribute, hold no term.
C15_Witness ==
    \E m \in analysed :
        /\ JustFinished(m)
        /\ \E n \in DOMAIN ProgramOf(m) :
              /\ ProgramOf(m)[n].id = "u" /\ ProgramOf(m)[n].ctx = "Store"
              /\ AstNode(m, n) \in DOMAIN node_runtime_terms
              /\ node_runtime_terms[AstNode(m, n)] = {}
        /\ \E n \in DOMAIN ProgramOf(m) :
              /\ ProgramOf(m)[n].id = "z" /\ ProgramOf(m)[n].ctx = "Store"
              /\ AstNode(m, n) \in DOMAIN node_runtime_terms
              /\ node_runtime_terms[AstNode(m, n)] = {}

\* C16: when the processing of a module begins, the term store holds no entry
\* made while an earlier module was processed.
C16_ModuleLocalStore ==
    (pc = "seed" /\ j \in DOMAIN module_name_to_module_node)
        => \A node \in DOMAIN node_runtime_terms : node.m = CurrentModule.name


\* A function scope and the function scopes around it, the module's included.
RECURSIVE EnclosingScopes(_, _)
EnclosingScopes(P, scope) ==
    IF scope = 0 THEN {0} ELSE {scope} \cup EnclosingScopes(P, P[scope].scope)

\* The number of function scopes around a scope.
ScopeDepth(P, scope) == Cardinality(EnclosingScopes(P, scope)) - 1

\* The reads of a function body of names that the function itself does not bind.
FreeReads(m) ==
    LET P == ProgramOf(m)
    IN  {n \in DOMAIN P :
            /\ P[n].kind = "Name" /\ P[n].ctx = "Load"
            /\ P[n].scope # 0 /\ P[n].cls = 0
            /\ Bindings(P, P[n].id, P[n].scope) = {}}

\* The bindings of the name of a free read in the function scopes around the
\* reading function; a binding made in a class body is none of them.
BindersAround(m, n) ==
    LET P == ProgramOf(m)
    IN  UNION {Bindings(P, P[n].id, scope) :
                  scope \in EnclosingScopes(P, P[P[n].scope].scope)}

ReadsBeforeAssignment(m) ==
    LET P == ProgramOf(m)
    IN  {n \in DOMAIN P :
            /\ P[n].kind = "Name" /\ P[n].ctx = "Load"
            /\ \E q \in DOMAIN P : q > n /\ q \in BindingsIn(P, P[n].id, P[n].scope, P[n].cls)
            /\ \A q \in DOMAIN P : q < n => q \notin BindingsIn(P, P[n].id, P[n].scope, P[n].cls)}

\* The resolver has flagged the read.
Flagged(m, n) ==
    \E p \in DOMAIN log :
        /\ log[p].what = "use-before-assignment"
        /\ log[p].name = m /\ log[p].node = n

\* C18: a read of a name before the first assignment to it of a scope that assigns
\* it later is flagged by the resolver and resolves to nothing: it is no key of the
\* definition mapping, so neither a binding of an enclosing scope nor a dummy node
\* is its definition, and it holds no term.
C18_UseBeforeAssignment ==
    \A m \in {x \in analysed : JustFinished(x)} :
        \A n \in ReadsBeforeAssignment(m) :
            /\ Flagged(m, n)
            /\ AstNode(m, n) \notin DOMAIN node_to_definition_node_mapping
            /\ TermsOfNode(AstNode(m, n)) = {}

\* A pass is over in which a function read `foo` before assigning it, the module
\* binding `foo` to a known function: the read is flagged and holds no term, and
\* the read after the assignment holds the terms of the function's own binding.
C18_Witness ==
    \E m \in analysed :
        /\ JustFinished(m)
        /\ \E n \in ReadsBeforeAssignment(m), q \in DOMAIN ProgramOf(m) :
              LET P == ProgramOf(m)
              IN  /\ P[n].id = "foo" /\ P[n].scope # 0
                  /\ Flagged(m, n)
                  /\ Bindings(P, "foo", 0) # {}
                  /\ TermsOfNode(AstNode(m, Min(Bindings(P, "foo", 0)))) # {}
                  /\ TermsOfNode(AstNode(m, n)) = {}
                  /\ P[q].kind = "Name" /\ P[q].ctx = "Load" /\ P[q].id = "foo"
                  /\ P[q].scope = P[n].scope /\ q > n
                  /\ AstNode(m, q) \in DOMAIN node_to_definition_node_mapping
                  /\ node_to_definition_node_mapping[AstNode(m, q)].k
                        \in Bindings(P, "foo", P[n].scope)
                  /\ TermsOfNode(AstNode(m, q)) # {}


\* The callback is about to run on an attribute access.
AtAttribute ==
    /\ pc = "visit"
    /\ k \in DOMAIN CurrentModule.value
    /\ CurrentModule.value[k].kind = "Attribute"

\* The terms of the value of the attribute access the callback is about to run on.
TermsOfValue == TermsOfNode(AstNode(CurrentModule.name, CurrentModule.value[k].ref))

\* The terms on which the attribute-access resolver finds the attribute.
TermsWithAttribute ==
    {t \in TermsOfValue :
        get_attribute_access_result(
            t, CurrentModule.value[k].id,
            unwrapped_runtime_functions_to_named_function_definitions) # None}

\* The terms a node has in the store, none when it has no entry.
StoredTerms(store, node) == IF node \in DOMAIN store THEN store[node] ELSE {}

\* C19: the step of the callback on an attribute access adds to the node's term
\* set the resolver's result for each term of the value on which the attribute is
\* found, and nothing else; a term on which it is not found adds nothing; no other
\* node's set changes, nothing is printed and nothing is raised.
C19_AttributeRule ==
    [][AtAttribute =>
          LET node == AstNode(CurrentModule.name, k)
              attr == CurrentModule.value[k].id
          IN  /\ StoredTerms(node_runtime_terms', node) =
                    StoredTerms(node_runtime_terms, node) \cup
                    {get_attribute_access_result(
                         t, attr,
                         unwrapped_runtime_functions_to_named_function_definitions)[1] :
                       t \in TermsWithAttribute}
              /\ \A other \in DOMAIN node_runtime_terms' \ {node} :
                    StoredTerms(node_runtime_terms', other) =
                        StoredTerms(node_runtime_terms, other)
              /\ stdout' = stdout
              /\ raised' = None /\ pc' = "visit" /\ k' = k + 1]_vars

\* The callback has run on an attribute access whose value holds two terms, one
\* with the attribute and one without: the node holds the one result.
C19_Witness ==
    /\ pc = "visit"
    /\ k - 1 \in DOMAIN CurrentModule.value
    /\ CurrentModule.value[k - 1].kind = "Attribute"
    /\ LET node == AstNode(CurrentModule.name, k - 1)
           value == AstNode(CurrentModule.name, CurrentModule.value[k - 1].ref)
           attr == CurrentModule.value[k - 1].id
       IN  /\ Cardinality(TermsOfNode(value)) = 2
           /\ \E t \in TermsOfNode(value) :
                 get_attribute_access_result(
                     t, attr, unwrapped_runtime_functions_to_named_function_definitions) = None
           /\ Cardinality(StoredTerms(node_runtime_terms, node)) = 1

\* The callback has run on an attribute access whose value holds two terms that
\* both have the attribute: the node holds both results.
C19_WitnessUnion ==
    /\ pc = "visit"
    /\ k - 1 \in DOMAIN CurrentModule.value
    /\ CurrentModule.value[k - 1].kind = "Attribute"
    /\ Cardinality(TermsOfNode(AstNode(CurrentModule.name,
                                       CurrentModule.value[k - 1].ref))) = 2
    /\ Cardinality(StoredTerms(node_runtime_terms, AstNode(CurrentModule.name, k - 1))) = 2

\* The callback has run on an attribute access on whose value's terms the
\* attribute is not found: the node's set is empty.
C19_WitnessEmpty ==
    /\ pc = "visit"
    /\ k - 1 \in DOMAIN CurrentModule.value
    /\ CurrentModule.value[k - 1].kind = "Attribute"
    /\ TermsOfNode(AstNode(CurrentModule.name, CurrentModule.value[k - 1].ref)) # {}
    /\ AstNode(CurrentModule.name, k - 1) \in DOMAIN node_runtime_terms
    /\ node_runtime_terms[AstNode(CurrentModule.name, k - 1)] = {}


\* The imported names of a module whose unwrapped object is a module, a class or
\* a function, each with that object.
ClassifiableImports(m) ==
    {<<e[1], unwrap(e[2])>> : e \in {x \in Range(ImportedNames(m)) :
        unwrap(x[2]).tag \in {"Module", "RuntimeClass", "UnwrappedRuntimeFunction"}}}

\* C20: while the module loop is at a module, the dummy definition node of each
\* of its imported names with a classifiable object holds exactly one term: the
\* module or class itself, and for a function the FunctionDefinition it has in
\* the global map of functions to definitions when it has one, and the unwrapped
\* function itself when it has none.
C20_ImportSeeding ==
    \A e \in Range(module_name_to_module_node) :
        \A imp \in ClassifiableImports(e.name) :
            LET node == DummyNode(e.name, "import", imp[1])
                u == imp[2]
            IN  InCurrentModule(node) =>
                  /\ imp[1] \in DOMAIN names_to_dummy_definition_nodes
                  /\ names_to_dummy_definition_nodes[imp[1]].d \in {"import", "class"}
                  /\ names_to_dummy_definition_nodes[imp[1]].d = "import"
                        => names_to_dummy_definition_nodes[imp[1]] = node
                  /\ node \in DOMAIN node_runtime_terms
                  /\ node_runtime_terms[node] =
                        IF u.tag \in {"Module", "RuntimeClass"} THEN {u}
                        ELSE IF u \in DOMAIN
                                    unwrapped_runtime_functions_to_named_function_definitions
                        THEN {unwrapped_runtime_functions_to_named_function_definitions[u]}
                        ELSE {u}

\* The pass of a module is under way whose imports are a module, a class, a
\* function that a module of the root defines, a native function and a float:
\* the first function's node holds a FunctionDefinition, the native's holds the
\* native, and the float has no node and an error in the log.
C20_Witness ==
    /\ pc = "visit" /\ k > 1
    /\ j \in DOMAIN module_name_to_module_node
    /\ LET m == CurrentModule.name
       IN  /\ DummyNode(m, "import", "helper") \in DOMAIN node_runtime_terms
           /\ node_runtime_terms[DummyNode(m, "import", "helper")]
                 = {FunctionDefinition(AstNode(ModuleNames[1],
                        CHOOSE n \in DOMAIN ProgramOf(ModuleNames[1]) :
                            /\ ProgramOf(ModuleNames[1])[n].kind = "FunctionDef"
                            /\ ProgramOf(ModuleNames[1])[n].id = "outer"))}
           /\ node_runtime_terms[DummyNode(m, "import", "getcwd")]
                 = {UnwrappedRuntimeFunction("posix", "", "getcwd")}
           /\ node_runtime_terms[DummyNode(m, "import", "os")] = {Module("os")}
           /\ "pi" \notin DOMAIN names_to_dummy_definition_nodes
           /\ \E p \in DOMAIN log : log[p].what = "import-term" /\ log[p].name = m


\* The positions, in the imported names of a module, of the names whose unwrapped
\* object is neither a module, a class nor a function.
UnclassifiableImports(m) ==
    {p \in DOMAIN ImportedNames(m) :
        unwrap(ImportedNames(m)[p][2]).tag
            \notin {"Module", "RuntimeClass", "UnwrappedRuntimeFunction"}}

\* The reads, in a module, of a name that no scope of the module binds.
ReadsOfUnbound(m, name) ==
    {n \in DOMAIN ProgramOf(m) :
        /\ ProgramOf(m)[n].kind = "Name" /\ ProgramOf(m)[n].ctx = "Load"
        /\ ProgramOf(m)[n].id = name
        /\ \A q \in DOMAIN ProgramOf(m) :
              ~(ProgramOf(m)[q].id = name
                  /\ (\/ ProgramOf(m)[q].kind \in {"FunctionDef", "ClassDef"}
                      \/ (ProgramOf(m)[q].kind = "Name" /\ ProgramOf(m)[q].ctx = "Store")))}

\* C21: while the module loop is at a module, each imported name of the module
\* whose unwrapped object is neither a module, a class nor a function has an error
\* in the log, no dummy node of the import loop and no term: a read of the name
\* holds no term unless a builtin or a singleton of that name is in the dummy
\* table; the names imported after it are seeded, and the seeding ends in the
\* visit of the module and not in an exception.
C21_UnclassifiableImport ==
    \A e \in Range(module_name_to_module_node) :
        \A p \in UnclassifiableImports(e.name) :
            LET m == e.name
                name == ImportedNames(m)[p][1]
            IN  InCurrentModule(DummyNode(m, "import", name)) =>
                  /\ \E q \in DOMAIN log :
                        /\ log[q].what = "import-term"
                        /\ log[q].name = m /\ log[q].imported = name
                  /\ DummyNode(m, "import", name) \notin DOMAIN node_runtime_terms
                  /\ name \in DOMAIN names_to_dummy_definition_nodes
                        => names_to_dummy_definition_nodes[name].d \in {"builtin", "singleton"}
                  /\ \A n \in ReadsOfUnbound(m, name) :
                        name \notin DOMAIN names_to_dummy_definition_nodes
                            => TermsOfNode(AstNode(m, n)) = {}
                  /\ \A q \in DOMAIN ImportedNames(m) :
                        (q > p /\ q \notin UnclassifiableImports(m))
                            => DummyNode(m, "import", ImportedNames(m)[q][1])
                                    \in DOMAIN node_runtime_terms
                  /\ (pc = "aborted" => k \in DOMAIN e.value)

\* A pass is over in which `p = pi` gave p no term, pi being an imported float,
\* and `cw = getcwd` gave cw the native function imported after pi.
C21_Witness ==
    \E m \in analysed :
        /\ JustFinished(m)
        /\ UnclassifiableImports(m) # {}
        /\ \E n \in ReadsOfUnbound(m, "pi"), q \in DOMAIN ProgramOf(m) :
              /\ ProgramOf(m)[q].kind = "Name" /\ ProgramOf(m)[q].id = "p"
              /\ ProgramOf(m)[q].ctx = "Store"
              /\ TermsOfNode(AstNode(m, n)) = {}
              /\ AstNode(m, q) \in DOMAIN node_runtime_terms
              /\ node_runtime_terms[AstNode(m, q)] = {}
        /\ \E q \in DOMAIN ProgramOf(m) :
              /\ ProgramOf(m)[q].kind = "Name" /\ ProgramOf(m)[q].id = "cw"
              /\ ProgramOf(m)[q].ctx = "Store"
              /\ TermsOfNode(AstNode(m, q)) = {UnwrappedRuntimeFunction("posix", "", "getcwd")}


\* The call nodes of all the modules that were visited.
AllCalls ==
    UNION {{AstNode(e.name, n) : n \in {q \in DOMAIN e.value : e.value[q].kind = "Call"}}
           : e \in Range(module_name_to_module_node)}

\* C22: of two runs that no exception ended and that iterated the callee term sets
\* in any two orders, each call node has the same number of records in both, and
\* no record was printed in the iteration of a term that resolves to no function.
C22_CountIndependentOfOrder ==
    (pc = "done" /\ raised = None /\ rerun.raised = None) =>
        \A call \in AllCalls :
            /\ Len(RecordsOf(stdout, call)) = Len(RecordsOf(rerun.stdout, call))
            /\ \A p \in DOMAIN stdout :
                  stdout[p].node = call => EmissionGuard(Resolved(stdout[p].term))


\* The calls, in a module, of a name that resolves to a function definition at
\* module level which the bridge knows and whose source can be read.
CallsOfModuleFunctions(m) ==
    LET P == ProgramOf(m)
    IN  {n \in DOMAIN P :
            /\ P[n].kind = "Call" /\ P[P[n].ref].kind = "Name"
            /\ AstNode(m, P[n].ref) \in DOMAIN node_to_definition_node_mapping
            /\ LET d == node_to_definition_node_mapping[AstNode(m, P[n].ref)]
               IN  /\ d.m = m /\ d.k \in DOMAIN P
                   /\ P[d.k].kind = "FunctionDef" /\ P[d.k].scope = 0 /\ P[d.k].cls = 0
                   /\ FunctionDefinition(d)
                        \in DOMAIN named_function_definitions_to_unwrapped_runtime_functions
                   /\ getsourcelines(
                        named_function_definitions_to_unwrapped_runtime_functions[
                            FunctionDefinition(d)]) # None}

\* C23: once the pass of a module is over, every call of a module-level function
\* of the module has a record, whether the function is defined before or after
\* the function that calls it.
C23_ForwardCall ==
    \A m \in {x \in analysed : JustFinished(x)} :
        \A n \in CallsOfModuleFunctions(m) : RecordsOf(stdout, AstNode(m, n)) # <<>>


\* The module, the class name and the function a record is to carry for a callee
\* term, None when the term resolves to no function the bridge maps know.
Reported(module, class, function) ==
    Some([module |-> module, class |-> class, function |-> function])

ReportedCallee(t) ==
    CASE t.tag = "RuntimeClass" ->
            IF ConstructorKnown(t)
            THEN Reported(t.module, t.name, get_unwrapped_constructor(t)) ELSE None
      [] t.tag \in {"FunctionDefinition", "UnwrappedRuntimeFunction"} ->
            IF KnownFunction(t)
            THEN Reported(FunctionOf(t).module, "global", FunctionOf(t)) ELSE None
      [] t.tag \in {"UnboundMethod", "BoundMethod"} ->
            IF KnownFunction(t.function)
            THEN Reported(ClassCarried(t).module, ClassCarried(t).name, FunctionOf(t.function))
            ELSE None
      [] t.tag = "Instance" ->
            IF CallProviderKnown(t.class_)
            THEN Reported(t.class_.module, t.class_.name,
                          unwrap(get_comprehensive_dict_for_runtime_class(t.class_)["__call__"]))
            ELSE None
      [] OTHER -> None

\* C24: a record printed in the iteration of a class, function, method or
\* instance term carries the module and the name of the class that term carries
\* (the class called, the class or the instance's class the method was read on,
\* the class of the instance called; for a plain function the function's own
\* module and 'global') and the name, the start and end line and the signature
\* of the function that term resolves to.
C24_CalleeIdentity ==
    \A r \in Range(stdout) :
        (/\ InCurrentModule(r.node)
         /\ r.term.tag \in {"RuntimeClass", "FunctionDefinition", "UnwrappedRuntimeFunction",
                            "UnboundMethod", "BoundMethod", "Instance"}) =>
            /\ ReportedCallee(r.term) # None
            /\ LET c == ReportedCallee(r.term)[1]
                   f == SplitFields(r.text)
                   src == getsourcelines(c.function)[1]
               IN  /\ f[1] = <<c.module>>
                   /\ f[2] = <<c.class>>
                   /\ f[3] = <<c.function.name>>
                   /\ f[4] = <<ToString(src.start)>>
                   /\ f[5] = <<ToString(src.start + src.n - 1)>>
                   /\ f[11] = <<"\"", signature(c.function), "\"">>

\* C24, for the terms that resolve: the record of a term that resolves to a
\* function carries that term's class and that function's lines and signature, an
\* inherited constructor or method being so reported under the subclass.
C24_ResolvedCalleeIdentity ==
    \A r \in Range(stdout) :
        (InCurrentModule(r.node) /\ ReportedCallee(r.term) # None) =>
            LET c == ReportedCallee(r.term)[1]
                f == SplitFields(r.text)
                src == getsourcelines(c.function)[1]
            IN  /\ f[1] = <<c.module>>
                /\ f[2] = <<c.class>>
                /\ f[3] = <<c.function.name>>
                /\ f[4] = <<ToString(src.start)>>
                /\ f[5] = <<ToString(src.start + src.n - 1)>>
                /\ f[11] = <<"\"", signature(c.function), "\"">>


\* The kinds of scope-providing node that have a name.
NamedScopes == {"FunctionDef", "AsyncFunctionDef"}

\* C25: the caller function name, start line and end line of a record are those
\* of the innermost scope-providing node around the call: the name is None when
\* that node is the module, a lambda or a comprehension, the lines are None when
\* it is the module.  A call at module level, or directly inside a lambda or a
\* comprehension nested in a function, is recorded with caller function None.
C25_CallerFields ==
    \A r \in Range(stdout) :
        InCurrentModule(r.node) =>
            LET P == ProgramOf(r.node.m)
                scope == P[r.node.k].scope
                f == SplitFields(r.text)
            IN  /\ f[6] = <<r.node.m>>
                /\ f[8] = <<ToString(P[r.node.k].lineno)>>
                /\ scope = 0 =>
                      f[7] = <<"None">> /\ f[9] = <<"None">> /\ f[10] = <<"None">>
                /\ scope # 0 =>
                      /\ f[9] = <<ToString(P[scope].lineno)>>
                      /\ f[10] = <<ToString(P[scope].end_lineno)>>
                      /\ P[scope].kind \in NamedScopes => f[7] = <<P[scope].id>>
                      /\ P[scope].kind \notin NamedScopes => f[7] = <<"None">>

\* Records were printed for a call at module level, for a call in function bar,
\* and for calls in a lambda and in a comprehension inside function lam: the last
\* two name no caller function and carry the lines of the lambda and of the
\* comprehension.
C25_Witness ==
    /\ \E r \in Range(stdout) :
          ProgramOf(r.node.m)[r.node.k].scope = 0 /\ SplitFields(r.text)[9] = <<"None">>
    /\ \E r \in Range(stdout) : SplitFields(r.text)[7] = <<"bar">>
    /\ \E kind \in {"Lambda", "ListComp"} :
          \E r \in Range(stdout) :
              LET P == ProgramOf(r.node.m)
                  scope == P[r.node.k].scope
              IN  /\ scope # 0 /\ P[scope].kind = kind
                  /\ P[scope].scope # 0 /\ P[P[scope].scope].id = "lam"
                  /\ SplitFields(r.text)[7] = <<"None">>
                  /\ SplitFields(r.text)[9] = <<ToString(P[scope].lineno)>>


\* The visit is at an assignment statement.
AtAssign ==
    /\ pc = "visit"
    /\ k <= Len(CurrentModule.value)
    /\ CurrentModule.value[k].kind = "Assign"

\* The definition node of a node: the node itself when the def-use map has no
\* entry for it.
DefinitionNodeOf(node) ==
    IF node \in DOMAIN node_to_definition_node_mapping
    THEN node_to_definition_node_mapping[node] ELSE node

\* C26: the step of the callback on an assignment leaves in the definition node
\* of each target what it held before together with everything the definition
\* node of the node to its right holds (for the last target the value, for the
\* others the next target, with what that one held from earlier assignments);
\* nothing is removed, no other node changes and nothing is printed.
C26_CumulativeTransfer ==
    [][AtAssign =>
          LET m == CurrentModule.name
              targets == CurrentModule.value[k].targets
              Def(q) == DefinitionNodeOf(AstNode(m, targets[q]))
              Right(q) == IF q = Len(targets)
                          THEN DefinitionNodeOf(AstNode(m, CurrentModule.value[k].ref))
                          ELSE Def(q + 1)
          IN  /\ \A q \in DOMAIN targets :
                    StoredTerms(node_runtime_terms', Def(q)) =
                        StoredTerms(node_runtime_terms, Def(q))
                            \cup StoredTerms(node_runtime_terms', Right(q))
              /\ \A other \in DOMAIN node_runtime_terms' \ {Def(q) : q \in DOMAIN targets} :
                    /\ other \in DOMAIN node_runtime_terms
                    /\ node_runtime_terms'[other] = node_runtime_terms[other]
              /\ stdout' = stdout]_vars

\* After d = foo and s = d = K the name d, assigned twice, holds the function
\* foo and the class K, and s holds both as well: the function came to s from
\* d's earlier assignment.
C26_Witness ==
    \E m \in analysed :
        /\ JustFinished(m)
        /\ \E n \in DOMAIN ProgramOf(m) :
              /\ ProgramOf(m)[n].kind = "Assign" /\ Len(ProgramOf(m)[n].targets) = 2
              /\ ProgramOf(m)[ProgramOf(m)[n].targets[1]].id = "s"
              /\ ProgramOf(m)[ProgramOf(m)[n].targets[2]].id = "d"
              /\ TermsOfNode(AstNode(m, ProgramOf(m)[n].ref)) = {RuntimeClass(m, "K")}
              /\ TermsOfNode(AstNode(m, ProgramOf(m)[n].targets[1]))
                    = TermsOfNode(AstNode(m, ProgramOf(m)[n].targets[2]))
              /\ RuntimeClass(m, "K") \in TermsOfNode(AstNode(m, ProgramOf(m)[n].targets[1]))
              /\ \E t \in TermsOfNode(AstNode(m, ProgramOf(m)[n].targets[1])) :
                    t.tag = "FunctionDefinition"
              /\ Cardinality(TermsOfNode(AstNode(m, ProgramOf(m)[n].targets[1]))) = 2


\* The targets of the assignment the visit is at that are list or tuple patterns.
PatternTargets ==
    {t \in Range(CurrentModule.value[k].targets) :
        CurrentModule.value[t].kind \in {"List", "Tuple"}}

\* C27: the step of the callback on an assignment whose one target is a list or
\* tuple pattern adds the value's terms to the pattern node itself; the
\* definition nodes of the pattern's element names are left as they were.
C27_PatternTarget ==
    [][(AtAssign /\ PatternTargets # {} /\ Len(CurrentModule.value[k].targets) = 1) =>
          \A t \in PatternTargets :
              LET m == CurrentModule.name
                  P == CurrentModule.value
              IN  /\ StoredTerms(node_runtime_terms', DefinitionNodeOf(AstNode(m, t))) =
                        StoredTerms(node_runtime_terms, DefinitionNodeOf(AstNode(m, t)))
                            \cup StoredTerms(node_runtime_terms,
                                             DefinitionNodeOf(AstNode(m, P[k].ref)))
                  /\ \A e \in Range(P[t].elts) :
                        StoredTerms(node_runtime_terms', DefinitionNodeOf(AstNode(m, e))) =
                            StoredTerms(node_runtime_terms, DefinitionNodeOf(AstNode(m, e)))]_vars

\* After [a, b] = (1, 2) the pattern node holds the tuple's term (besides the
\* term of a list display, which the literal rule gave it) and the names a and b
\* hold no term.
C27_Witness ==
    \E m \in analysed :
        /\ JustFinished(m)
        /\ \E t \in DOMAIN ProgramOf(m) :
              /\ ProgramOf(m)[t].kind = "List" /\ Len(ProgramOf(m)[t].elts) = 2
              /\ TermsOfNode(AstNode(m, t)) = {Instance(RuntimeClass("builtins", "list")),
                                               Instance(RuntimeClass("builtins", "tuple"))}
              /\ \A e \in Range(ProgramOf(m)[t].elts) :
                    /\ ProgramOf(m)[e].id \in {"a", "b"}
                    /\ TermsOfNode(AstNode(m, e)) = {}


\* The kinds of node the callback has a branch for (lines 67-250).
KindsWithRule ==
    LiteralKinds \cup {"Call", "Attribute", "NamedExpr", "Assign", "AnnAssign",
                       "FunctionDef", "AsyncFunctionDef", "Lambda", "ClassDef"}

\* The visit is at a node of a kind without rule, or at an annotated assignment
\* without value.
AtNodeWithoutRule ==
    /\ pc = "visit"
    /\ k <= Len(CurrentModule.value)
    /\ \/ CurrentModule.value[k].kind \notin KindsWithRule
       \/ CurrentModule.value[k].kind = "AnnAssign" /\ CurrentModule.value[k].ref = 0

\* C28: the step of the callback on a node whose kind has no rule (a name, an
\* import, a return, an augmented assignment, a for statement, a subscript, a
\* binary operation, a formatted value) or on an annotated assignment without
\* value changes no term set, prints no record and raises nothing.
C28_NoRuleNoEffect ==
    [][AtNodeWithoutRule =>
          /\ node_runtime_terms' = node_runtime_terms
          /\ stdout' = stdout
          /\ raised' = raised /\ pc' = pc]_vars

\* The pass is over `n: int`, `d += 1` and `for w in cw: pass`: n and w hold no
\* term although int and cw do, and d holds what its assignments gave it, not
\* the Instance of int.
C28_Witness ==
    \E m \in analysed :
        /\ JustFinished(m)
        /\ \A kind \in {"Name", "Import", "Return", "AugAssign", "For", "Subscript", "BinOp",
                        "FormattedValue"} : FinishedNodes({kind}) # {}
        /\ \E a \in DOMAIN ProgramOf(m) :
              /\ ProgramOf(m)[a].kind = "AnnAssign" /\ ProgramOf(m)[a].ref = 0
              /\ TermsOfNode(AstNode(m, ProgramOf(m)[a].targets[1])) = {}
        /\ \E a \in DOMAIN ProgramOf(m) :
              /\ ProgramOf(m)[a].kind = "AugAssign"
              /\ TermsOfNode(AstNode(m, ProgramOf(m)[a].ref))
                    = {Instance(RuntimeClass("builtins", "int"))}
              /\ TermsOfNode(AstNode(m, ProgramOf(m)[a].targets[1])) # {}
              /\ Instance(RuntimeClass("builtins", "int"))
                    \notin TermsOfNode(AstNode(m, ProgramOf(m)[a].targets[1]))
        /\ \E a \in DOMAIN ProgramOf(m) :
              /\ ProgramOf(m)[a].kind = "For"
              /\ TermsOfNode(AstNode(m, ProgramOf(m)[a].ref)) # {}
              /\ TermsOfNode(AstNode(m, ProgramOf(m)[a].targets[1])) = {}


\* The names of the classes a module defines at its top level.
OwnClasses(m) ==
    {n.id : n \in {x \in Range(ProgramOf(m)) :
                      x.kind = "ClassDef" /\ x.cls = 0 /\ x.scope = 0 /\ x.rt # None}}

\* The public names of builtins bound to a class or a function, each with it.
PublicBuiltins ==
    {<<e[1], unwrap(e[2])>> : e \in {x \in Range(BuiltinsDict) :
        /\ ~StartsWithUnderscore(x[1])
        /\ unwrap(x[2]).tag \in {"RuntimeClass", "UnwrappedRuntimeFunction"}}}

\* The dummy node a name is to be bound to after the seeding of module m, and
\* its terms: the module's own class, else the classifiable import, else the
\* singleton literal, else the public builtin.
DummyOf(m, name) ==
    IF name \in OwnClasses(m)
    THEN [node |-> DummyNode(m, "class", name), terms |-> {RuntimeClass(m, name)}]
    ELSE IF \E imp \in ClassifiableImports(m) : imp[1] = name
    THEN LET u == (CHOOSE imp \in ClassifiableImports(m) : imp[1] = name)[2]
         IN  [node |-> DummyNode(m, "import", name),
              terms |-> IF u.tag \in {"Module", "RuntimeClass"} THEN {u}
                        ELSE IF u \in DOMAIN
                                  unwrapped_runtime_functions_to_named_function_definitions
                        THEN {unwrapped_runtime_functions_to_named_function_definitions[u]}
                        ELSE {u}]
    ELSE IF \E e \in Range(Singletons) : e[1] = name
    THEN [node |-> DummyNode(m, "singleton", name),
          terms |-> {Instance(RuntimeClass("builtins",
                        (CHOOSE e \in Range(Singletons) : e[1] = name)[2]))}]
    ELSE [node |-> DummyNode(m, "builtin", name),
          terms |-> {(CHOOSE e \in PublicBuiltins : e[1] = name)[2]}]

\* C29: when the seeding of a module is over, the dummy table binds exactly the
\* names of the module's classes, of its classifiable imports, of the singleton
\* literals and of the public builtins that are classes or functions, each to
\* one node: that of the class before that of the import before that of the
\* singleton before that of the builtin; the node holds the one term of that
\* source.  An imported name with an unclassifiable object that is also a
\* builtin stays bound to the builtin's node.
C29_DummyPrecedence ==
    (pc = "visit" /\ k = 1 /\ j \in DOMAIN module_name_to_module_node) =>
        LET m == CurrentModule.name
        IN  /\ DOMAIN names_to_dummy_definition_nodes =
                  OwnClasses(m) \cup {imp[1] : imp \in ClassifiableImports(m)}
                      \cup {e[1] : e \in Range(Singletons)} \cup {e[1] : e \in PublicBuiltins}
            /\ \A name \in DOMAIN names_to_dummy_definition_nodes :
                  /\ names_to_dummy_definition_nodes[name] = DummyOf(m, name).node
                  /\ DummyOf(m, name).node \in DOMAIN node_runtime_terms
                  /\ node_runtime_terms[DummyOf(m, name).node] = DummyOf(m, name).terms

\* The seeding is over for a module that defines class K and imports a class K, a
\* function max, an int min and a class Ellipsis: K is bound to the node of the
\* module's class, max to the import's, Ellipsis to the import's, None to the
\* singleton's, len to the builtin's, and min, whose import was logged and not
\* seeded, to the builtin's with the builtin function as its term.
C29_Witness ==
    /\ pc = "visit" /\ k = 1 /\ j \in DOMAIN module_name_to_module_node
    /\ "K" \in OwnClasses(CurrentModule.name)
    /\ {"K", "max", "min", "Ellipsis", "None", "len"}
          \subseteq DOMAIN names_to_dummy_definition_nodes
    /\ names_to_dummy_definition_nodes["K"].d = "class"
    /\ names_to_dummy_definition_nodes["max"].d = "import"
    /\ names_to_dummy_definition_nodes["Ellipsis"].d = "import"
    /\ names_to_dummy_definition_nodes["None"].d = "singleton"
    /\ names_to_dummy_definition_nodes["len"].d = "builtin"
    /\ names_to_dummy_definition_nodes["min"].d = "builtin"
    /\ node_runtime_terms[names_to_dummy_definition_nodes["min"]]
          = {UnwrappedRuntimeFunction("builtins", "", "min")}
    /\ \E q \in DOMAIN log : log[q].what = "import-term" /\ log[q].imported = "min"
                                /\ log[q].name = CurrentModule.name


\* The pieces of a path that are directories.
DirectoryPieces == {"pkg/"}

\* os.path.basename: the file name of a path.
BaseName(path) == Join(SelectSeq(path, LAMBDA piece : piece \notin DirectoryPieces))

\* C30: an iteration of the import loop skips its file (stores nothing, logs
\* nothing, raises nothing) if and only if the file's name is setup.py or
\* __main__.py.
C30_SpecialFileFilter ==
    [][(pc = "import" /\ i <= Len(module_name_to_file_path_dict)) =>
          ((/\ i' = i + 1
            /\ module_name_to_module_node' = module_name_to_module_node
            /\ module_name_to_module' = module_name_to_module
            /\ log' = log /\ raised' = raised)
           <=> BaseName(module_name_to_file_path_dict[i].path) \in {"setup.py", "__main__.py"})]_vars

====
